---- MODULE Spec2Model ----
(***************************************************************************)
(* A model of spore.net's server-side session authentication (login with   *)
(* its in-memory rate limiter, requireAuth, logout), of the API handlers   *)
(* that write to the data store, and of the metabarcode CSV upload.        *)
(*                                                                         *)
(* The data store (hosted Postgres) is modelled by its tables and by the   *)
(* constraints the migrations declare: primary keys, UNIQUE columns,       *)
(* foreign keys and ON DELETE CASCADE.  A store call fails exactly when it *)
(* violates one of them.                                                   *)
(***************************************************************************)
EXTENDS Integers, Sequences, FiniteSets, TLC

VARIABLES
    now,            \* the wall clock, in milliseconds (Date.now())
    ticks,          \* how many times the clock was advanced
    users,          \* table users:    id -> row
    sessions,       \* table sessions: token -> row
    routes,         \* table sampling_routes: id -> row
    detections,     \* table pathogen_detections: a set of rows
    uploads,        \* table sample_uploads: a sequence of rows (append order)
    gpsPoints,      \* table gps_tracking_points: a set of rows
    loginAttempts,  \* the login route's in-process Map ip -> {count, resetAt}
    pendingLogin,   \* a login request past its credential check, not yet answered
    nextId,         \* counters behind the generated ids and tokens
    last,           \* the request handled last, and its response
    purged,         \* history: the tokens whose session row was deleted, and why
    attemptLog,     \* history: per address, the login attempts of the current window
    passLog,        \* history: per address, time -> attempts that passed the limiter
    uploadLog,      \* history: the last two uploads, with the tables around them
    browsers,       \* per browser tab: the handleUpload call it is running
    collect,        \* the Collect tab of the sampler's browser, with its
                    \* entry in local storage
    client          \* a browser's copy of the identity (AuthService) and its
                    \* session cookie

vars == <<now, ticks, users, sessions, routes, detections, uploads, gpsPoints,
          loginAttempts, pendingLogin, nextId, last, purged, attemptLog,
          passLog, uploadLog, browsers, collect, client>>

-----------------------------------------------------------------------------
(* Bounds of the model. *)

MaxTicks == 2
MaxTokens == 2
MaxNewUsers == 1
MaxNewRoutes == 2

(* Program constants. *)

MAX_ATTEMPTS == 10
WINDOW_MS == 900000
SESSION_MS == 86400000

None == "none"

Roles == {"viewer", "sampler", "admin"}

-----------------------------------------------------------------------------
(* Maps as functions with a finite domain. *)

Put(f, k, v) == [x \in (DOMAIN f) \cup {k} |-> IF x = k THEN v ELSE f[x]]

Remove(f, k) == [x \in (DOMAIN f) \ {k} |-> f[x]]

-----------------------------------------------------------------------------
(* String conversions of the handlers. *)

\* String.prototype.toLowerCase on the e-mail addresses the model uses.
ToLowerCaseSkipped(s) == s

ToLowerCase(s) ==
    CASE s = "Admin@Spore.Local" -> "admin@spore.local"
      [] s = "Viewer@Test.com" -> "viewer@test.com"
      [] s = "New@Test.com" -> "new@test.com"
      [] s = "Other@Test.com" -> "other@test.com"
      [] OTHER -> s

\* bcrypt.hash(password, 10): a value only bcrypt.compare relates to the password.
BcryptHash(password) == <<"bcrypt", password>>

\* bcrypt.compare(password, hash).
BcryptCompare(password, hash) == hash = BcryptHash(password)

\* randomBytes(32).toString('hex'): a value never minted before.
TokenOf(n) == "tok" \o ToString(n)

\* gen_random_uuid() of the users and sampling_routes tables.
UserIdOf(n) == "u" \o ToString(n)

RouteIdOf(n) == "r" \o ToString(n)

-----------------------------------------------------------------------------
(* Requests and responses.  last holds the request handled last and the    *)
(* response it was given; an absent value is None, an absent record <<>>.  *)

NoRequest ==
    [op |-> "none", ip |-> None, token |-> None, required |-> None,
     email |-> None, password |-> None, target |-> None,
     status |-> 0, body |-> None, user |-> <<>>, cookie |-> None,
     authed |-> FALSE]

\* NextResponse.json({ error }, { status }).
ErrorResponse(req, status, error) ==
    [req EXCEPT !.status = status, !.body = error]

-----------------------------------------------------------------------------
(* lib/apiAuth: requireAuth. *)

\* A hierarchy with sampler and admin exchanged.
RoleRankSwapped(role) ==
    CASE role = "viewer" -> 1
      [] role = "sampler" -> 3
      [] role = "admin" -> 2

\* roleHierarchy
RoleRank(role) ==
    CASE role = "viewer" -> 1
      [] role = "sampler" -> 2
      [] role = "admin" -> 3

\* An expiry test that never fires.
IsExpiredNever(expires_at, t) == FALSE

\* new Date(session.expires_at) < new Date()
IsExpired(expires_at, t) == expires_at < t

\* The outcome of requireAuth(request, requiredRole) on the tables sess and
\* usrs at time t: the response status and error, the resolved user (<<>>
\* when refused) and the token whose session the call deletes (None when it
\* deletes nothing).
RequireAuth(sess, usrs, t, tok, requiredRole) ==
    LET refuse(status, error, del) ==
            [status |-> status, error |-> error, user |-> <<>>, del |-> del]
    IN  IF tok = None \/ tok = ""
        THEN refuse(401, "Unauthorized", None)
        ELSE IF tok \notin DOMAIN sess
        THEN refuse(401, "Unauthorized", None)
        ELSE IF IsExpired(sess[tok].expires_at, t)
        THEN refuse(401, "Session expired", tok)
        ELSE LET uid == sess[tok].user_id IN
             IF uid \notin DOMAIN usrs \/ ~usrs[uid].is_active
             THEN refuse(401, "Unauthorized", None)
             ELSE IF RoleRank(usrs[uid].role) < RoleRank(requiredRole)
             THEN refuse(403, "Forbidden", None)
             ELSE [status |-> 200, error |-> None,
                   user |-> <<[id |-> uid, email |-> usrs[uid].email,
                               role |-> usrs[uid].role]>>,
                   del |-> None]

\* The sessions table after the call: the expired session is deleted.
AfterAuthByUser(sess, auth) ==
    IF auth.del = None THEN sess
    ELSE [x \in {y \in DOMAIN sess : sess[y].user_id # sess[auth.del].user_id}
            |-> sess[x]]

AfterAuth(sess, auth) ==
    IF auth.del = None THEN sess ELSE Remove(sess, auth.del)

\* History: the tokens whose session row a step removed, with the reason.
Removed(before, after, why) ==
    {[token |-> tok, by |-> why] : tok \in (DOMAIN before) \ (DOMAIN after)}

\* The response of a handler that returns requireAuth's refusal.
AuthRefusal(req, auth) == ErrorResponse(req, auth.status, auth.error)

-----------------------------------------------------------------------------
(* api/login: the rate limiter and POST. *)

\* A limit that lets one attempt more through.
LimitReachedOffByOne(count) == count > MAX_ATTEMPTS

\* record.count >= MAX_ATTEMPTS
LimitReached(count) == count >= MAX_ATTEMPTS

\* !record || now > record.resetAt
WindowOver(attempts, ip, t) ==
    ip \notin DOMAIN attempts \/ t > attempts[ip].resetAt

\* checkRateLimit(ip): whether the attempt may proceed, and the Map after it.
CheckRateLimit(attempts, ip, t) ==
    IF WindowOver(attempts, ip, t)
    THEN [ok |-> TRUE,
          map |-> Put(attempts, ip, [count |-> 1, resetAt |-> t + WINDOW_MS])]
    ELSE IF LimitReached(attempts[ip].count)
    THEN [ok |-> FALSE, map |-> attempts]
    ELSE [ok |-> TRUE,
          map |-> [attempts EXCEPT ![ip].count = @ + 1]]

\* The same lookup without the is_active filter.
AnyUsersByEmail(usrs, email) ==
    {id \in DOMAIN usrs : usrs[id].email = ToLowerCase(email)}

\* .from('users').select(...).eq('email', email.toLowerCase())
\*  .eq('is_active', true).single(): the ids of the matching rows.
ActiveUsersByEmail(usrs, email) ==
    {id \in DOMAIN usrs :
        usrs[id].email = ToLowerCase(email) /\ usrs[id].is_active}

\* History of the limiter, kept beside the code's Map: per address the time
\* of the attempt that opened the current window, the number of attempts
\* made in it, and the number of attempts of the window before it.  A
\* window opened at time s covers the attempts made up to s + WINDOW_MS; the
\* first attempt after that opens the next window.
LogAttempt(log, ip, t) ==
    IF ip \in DOMAIN log /\ t <= log[ip].start + WINDOW_MS
    THEN [log EXCEPT ![ip].n = @ + 1]
    ELSE Put(log, ip, [start |-> t, n |-> 1,
                       prev |-> IF ip \in DOMAIN log THEN log[ip].n ELSE 0])

\* History: per address and instant, the attempts that reached the
\* credential check at that instant.
LogPass(log, ip, t) ==
    IF ip \notin DOMAIN log THEN Put(log, ip, [x \in {t} |-> 1])
    ELSE [log EXCEPT ![ip] =
            IF t \in DOMAIN @ THEN [@ EXCEPT ![t] = @ + 1] ELSE Put(@, t, 1)]

\* POST /api/login up to the end of its credential check.  A request that
\* passes it waits in pendingLogin for the session insert (LoginIssue).
LoginCheck(ip, email, password) ==
    LET req == [NoRequest EXCEPT !.op = "login", !.ip = ip, !.email = email,
                                 !.password = password]
        limit == CheckRateLimit(loginAttempts, ip, now)
        found == ActiveUsersByEmail(users, email)
    IN  /\ pendingLogin = <<>>
        /\ loginAttempts' = limit.map
        /\ IF ~limit.ok
           THEN /\ last' = ErrorResponse(req, 429,
                              "Too many login attempts. Please try again later.")
                /\ pendingLogin' = pendingLogin
           ELSE IF email = "" \/ password = ""
           THEN /\ last' = ErrorResponse(req, 400, "Email and password are required")
                /\ pendingLogin' = pendingLogin
           ELSE IF Cardinality(found) # 1
           THEN /\ last' = ErrorResponse(req, 401, "Invalid credentials")
                /\ pendingLogin' = pendingLogin
           ELSE LET id == CHOOSE u \in found : TRUE IN
                IF ~BcryptCompare(password, users[id].password_hash)
                THEN /\ last' = ErrorResponse(req, 401, "Invalid credentials")
                     /\ pendingLogin' = pendingLogin
                ELSE /\ nextId.token <= MaxTokens
                     /\ last' = [req EXCEPT !.body = "pending"]
                     /\ pendingLogin' =
                            <<[ip |-> ip, email |-> email, password |-> password,
                               id |-> id, user_email |-> users[id].email,
                               role |-> users[id].role]>>
        /\ UNCHANGED <<now, ticks, users, sessions, routes, detections, uploads,
                       gpsPoints, nextId, purged, uploadLog, browsers,
                       collect, client>>

\* The login request with the limiter's history left alone, and with the
\* history written.
Login(ip, email, password) ==
    /\ LoginCheck(ip, email, password)
    /\ UNCHANGED <<attemptLog, passLog>>

LoginLogged(ip, email, password) ==
    /\ LoginCheck(ip, email, password)
    /\ attemptLog' = LogAttempt(attemptLog, ip, now)
    /\ passLog' = IF last'.status # 429 THEN LogPass(passLog, ip, now)
                  ELSE passLog

\* supabaseAdmin.from('sessions').insert(row): the row violates the foreign
\* key sessions.user_id -> users(id) when the user is gone, and the primary
\* key when the token exists; the table is then unchanged.
SessionsInsert(sess, usrs, token, row) ==
    IF row.user_id \in DOMAIN usrs /\ token \notin DOMAIN sess
    THEN Put(sess, token, row)
    ELSE sess

\* Date.now() + 24 * 60 * 60 * 1000
ExpiresAt(t) == t + SESSION_MS

\* .from('users').update({ last_login }).eq('id', id)
TouchLastLogin(usrs, id, t) ==
    IF id \in DOMAIN usrs THEN [usrs EXCEPT ![id].last_login = <<t>>] ELSE usrs

\* POST /api/login from the token generation on: the session insert (its
\* result is not looked at), the last_login update and the 200 response
\* with the session cookie.
LoginIssue ==
    /\ pendingLogin # <<>>
    /\ LET p == pendingLogin[1]
           token == TokenOf(nextId.token)
           row == [user_id |-> p.id, expires_at |-> ExpiresAt(now)]
       IN  /\ sessions' = SessionsInsert(sessions, users, token, row)
           /\ users' = TouchLastLogin(users, p.id, now)
           /\ last' = [NoRequest EXCEPT
                         !.op = "login", !.ip = p.ip, !.email = p.email,
                         !.password = p.password, !.status = 200, !.body = "user",
                         !.user = <<[id |-> p.id, email |-> p.user_email,
                                     role |-> p.role]>>,
                         !.cookie = token]
    /\ pendingLogin' = <<>>
    /\ nextId' = [nextId EXCEPT !.token = @ + 1]
    /\ UNCHANGED <<now, ticks, routes, detections, uploads, gpsPoints,
                   loginAttempts, purged, attemptLog, passLog, uploadLog,
                   browsers, collect, client>>

-----------------------------------------------------------------------------
(* api/logout: POST. *)

\* A delete that takes every session of the token's user.
SessionsDeleteAllOfUser(sess, token) ==
    IF token \in DOMAIN sess
    THEN [x \in {y \in DOMAIN sess : sess[y].user_id # sess[token].user_id}
            |-> sess[x]]
    ELSE sess

\* supabaseAdmin.from('sessions').delete().eq('token', token)
SessionsDelete(sess, token) == Remove(sess, token)

Logout(tok) ==
    /\ sessions' = IF tok = None \/ tok = "" THEN sessions
                   ELSE SessionsDelete(sessions, tok)
    /\ last' = [NoRequest EXCEPT !.op = "logout", !.token = tok, !.status = 200,
                                 !.body = "success", !.cookie = ""]
    /\ purged' = purged \cup Removed(sessions, sessions', "logout")
    /\ UNCHANGED <<now, ticks, users, routes, detections, uploads, gpsPoints,
                   loginAttempts, pendingLogin, nextId, attemptLog, passLog,
                   uploadLog, browsers, collect, client>>

-----------------------------------------------------------------------------
(* A handler guarded by requireAuth(request, requiredRole) that only reads: *)
(* GET /api/me (requiredRole 'viewer'), GET /api/users ('admin').           *)

GuardedRead(tok, requiredRole) ==
    LET req == [NoRequest EXCEPT !.op = "requireAuth", !.token = tok,
                                 !.required = requiredRole]
        auth == RequireAuth(sessions, users, now, tok, requiredRole)
    IN  /\ sessions' = AfterAuth(sessions, auth)
        /\ purged' = purged \cup Removed(sessions, AfterAuth(sessions, auth), "expired")
        /\ last' = IF auth.status = 200
                   THEN [req EXCEPT !.status = 200, !.body = "user",
                                    !.user = auth.user, !.authed = TRUE]
                   ELSE AuthRefusal(req, auth)
        /\ UNCHANGED <<now, ticks, users, routes, detections, uploads, gpsPoints,
                       loginAttempts, pendingLogin, nextId, attemptLog, passLog,
                       uploadLog, browsers, collect, client>>

-----------------------------------------------------------------------------
(* api/users (the variant guarded by requireAuth): POST, PATCH, DELETE.    *)
(* An optional body field is <<>> when undefined and <<value>> otherwise.  *)

\* .from('users').select('id').eq('email', email.toLowerCase()).single()
UsersByEmail(usrs, email) ==
    {id \in DOMAIN usrs : usrs[id].email = ToLowerCase(email)}

UsersPOST(tok, email, password, full_name, role) ==
    LET req == [NoRequest EXCEPT !.op = "users.POST", !.token = tok,
                                 !.required = "admin", !.email = email,
                                 !.password = password]
        auth == RequireAuth(sessions, users, now, tok, "admin")
        ok == [req EXCEPT !.authed = TRUE]
        id == UserIdOf(nextId.user)
    IN  /\ sessions' = AfterAuth(sessions, auth)
        /\ purged' = purged \cup Removed(sessions, AfterAuth(sessions, auth), "expired")
        /\ IF auth.status # 200
           THEN /\ last' = AuthRefusal(req, auth)
                /\ UNCHANGED <<users, nextId>>
           ELSE IF email = "" \/ password = "" \/ full_name = ""
           THEN /\ last' = ErrorResponse(ok, 400,
                              "Email, password, and full name are required")
                /\ UNCHANGED <<users, nextId>>
           ELSE IF role \notin Roles
           THEN /\ last' = ErrorResponse(ok, 400,
                              "Invalid role. Must be viewer, sampler, or admin")
                /\ UNCHANGED <<users, nextId>>
           ELSE IF Cardinality(UsersByEmail(users, email)) = 1
           THEN /\ last' = ErrorResponse(ok, 409,
                              "User with this email already exists")
                /\ UNCHANGED <<users, nextId>>
           ELSE /\ nextId.user <= MaxNewUsers
                /\ users' = Put(users, id,
                                [email |-> ToLowerCase(email),
                                 password_hash |-> BcryptHash(password),
                                 role |-> role, is_active |-> TRUE,
                                 last_login |-> <<>>])
                /\ nextId' = [nextId EXCEPT !.user = @ + 1]
                /\ last' = [ok EXCEPT !.status = 201, !.body = "user",
                                      !.target = id]
        /\ UNCHANGED <<now, ticks, routes, detections, uploads, gpsPoints,
                       loginAttempts, pendingLogin, attemptLog, passLog, uploadLog,
                       browsers, collect, client>>

\* The row after .update(updates): only the provided fields change.
ApplyUpdates(row, email, role, is_active) ==
    [row EXCEPT
        !.email = IF email = <<>> THEN @ ELSE ToLowerCase(email[1]),
        !.role = IF role = <<>> THEN @ ELSE role[1],
        !.is_active = IF is_active = <<>> THEN @ ELSE is_active[1]]

UsersPATCH(tok, id, email, role, is_active) ==
    LET req == [NoRequest EXCEPT !.op = "users.PATCH", !.token = tok,
                                 !.required = "admin", !.target = id]
        auth == RequireAuth(sessions, users, now, tok, "admin")
        ok == [req EXCEPT !.authed = TRUE]
    IN  /\ sessions' = AfterAuth(sessions, auth)
        /\ purged' = purged \cup Removed(sessions, AfterAuth(sessions, auth), "expired")
        /\ IF auth.status # 200
           THEN /\ last' = AuthRefusal(req, auth)
                /\ users' = users
           ELSE IF id = None \/ id = ""
           THEN /\ last' = ErrorResponse(ok, 400, "User ID is required")
                /\ users' = users
           ELSE IF role # <<>> /\ role[1] \notin Roles
           THEN /\ last' = ErrorResponse(ok, 400, "Invalid role")
                /\ users' = users
           ELSE IF \/ id \notin DOMAIN users
                   \* users.email is UNIQUE
                   \/ /\ email # <<>>
                      /\ \E other \in DOMAIN users \ {id} :
                            users[other].email = ToLowerCase(email[1])
           THEN /\ last' = ErrorResponse(ok, 500, "Failed to update user")
                /\ users' = users
           ELSE /\ users' = [users EXCEPT
                               ![id] = ApplyUpdates(@, email, role, is_active)]
                /\ last' = [ok EXCEPT !.status = 200, !.body = "user"]
        /\ UNCHANGED <<now, ticks, routes, detections, uploads, gpsPoints,
                       loginAttempts, pendingLogin, nextId, attemptLog, passLog,
                       uploadLog, browsers, collect, client>>

\* Whether a row of another table refers to the user without ON DELETE
\* CASCADE (sampling_routes.created_by, sample_uploads.uploaded_by).
UserIsReferenced(id) ==
    \/ \E r \in DOMAIN routes : routes[r].created_by = id
    \/ \E i \in 1..Len(uploads) : uploads[i].uploaded_by = id

\* sessions.user_id ... ON DELETE CASCADE
SessionsOfOthers(sess, id) ==
    [x \in {y \in DOMAIN sess : sess[y].user_id # id} |-> sess[x]]

UsersDELETE(tok, id) ==
    LET req == [NoRequest EXCEPT !.op = "users.DELETE", !.token = tok,
                                 !.required = "admin", !.target = id]
        auth == RequireAuth(sessions, users, now, tok, "admin")
        ok == [req EXCEPT !.authed = TRUE]
    IN  /\ IF auth.status # 200
           THEN /\ last' = AuthRefusal(req, auth)
                /\ sessions' = AfterAuth(sessions, auth)
                /\ users' = users
           ELSE IF id = None \/ id = ""
           THEN /\ last' = ErrorResponse(ok, 400, "User ID is required")
                /\ UNCHANGED <<users, sessions>>
           ELSE IF UserIsReferenced(id)
           THEN /\ last' = ErrorResponse(ok, 500, "Failed to delete user")
                /\ UNCHANGED <<users, sessions>>
           ELSE /\ users' = Remove(users, id)
                /\ sessions' = SessionsOfOthers(sessions, id)
                /\ last' = [ok EXCEPT !.status = 200,
                                      !.body = "User deleted successfully"]
        /\ purged' = purged
                     \cup Removed(sessions, AfterAuth(sessions, auth), "expired")
                     \cup Removed(AfterAuth(sessions, auth), sessions', "cascade")
        /\ UNCHANGED <<now, ticks, routes, detections, uploads, gpsPoints,
                       loginAttempts, pendingLogin, nextId, attemptLog, passLog,
                       uploadLog, browsers, collect, client>>

-----------------------------------------------------------------------------
(* api/samples: DELETE and POST.  Neither calls requireAuth.               *)

\* String.prototype.trim on the sample ids the model uses.
Trim(s) ==
    CASE s = " 25_01 " -> "25_01"
      [] OTHER -> s

\* new Date().toISOString().split('T')[0]: the UTC day of the instant.
IsoDate(t) == <<"utc-day", t \div (24 * 60 * 60 * 1000)>>

\* .from('sampling_routes').delete().eq('id', routeId), with the cascades of
\* pathogen_detections, sample_uploads and gps_tracking_points.
SamplesDELETE(routeId) ==
    LET req == [NoRequest EXCEPT !.op = "samples.DELETE", !.target = routeId]
    IN  /\ IF routeId = None \/ routeId = ""
           THEN /\ last' = ErrorResponse(req, 400, "Route ID is required")
                /\ UNCHANGED <<routes, detections, uploads, gpsPoints>>
           ELSE /\ routes' = Remove(routes, routeId)
                /\ detections' = {d \in detections : d.route_id # routeId}
                /\ uploads' = SelectSeq(uploads, LAMBDA u : u.route_id # routeId)
                /\ gpsPoints' = {g \in gpsPoints : g.route_id # routeId}
                /\ last' = [req EXCEPT !.status = 200, !.body = "success"]
        /\ UNCHANGED <<now, ticks, users, sessions, loginAttempts, pendingLogin,
                       nextId, purged, attemptLog, passLog, uploadLog, browsers,
                       collect, client>>

\* sampling_routes.sample_id is UNIQUE; created_by REFERENCES users(id).
RouteInsertFails(rts, usrs, row) ==
    \/ \E r \in DOMAIN rts : rts[r].sample_id = row.sample_id
    \/ row.created_by # None /\ row.created_by \notin DOMAIN usrs

SamplesPOST(sampleId, userId, nPoints) ==
    LET req == [NoRequest EXCEPT !.op = "samples.POST", !.target = sampleId]
        id == RouteIdOf(nextId.route)
        row == [sample_id |-> Trim(sampleId),
                start_name |-> "Field Location", end_name |-> "Field Location",
                start_latitude |-> "-31.95", start_longitude |-> "115.86",
                end_latitude |-> "-31.39", end_longitude |-> "116.09",
                collection_date |-> IsoDate(now), created_by |-> userId]
    IN  /\ IF RouteInsertFails(routes, users, row)
           THEN /\ last' = ErrorResponse(req, 500, "routeError.message")
                /\ UNCHANGED <<routes, gpsPoints, nextId>>
           ELSE /\ nextId.route <= MaxNewRoutes
                /\ routes' = Put(routes, id, row)
                /\ gpsPoints' = gpsPoints \cup
                                  {[route_id |-> id, n |-> i] : i \in 1..nPoints}
                /\ nextId' = [nextId EXCEPT !.route = @ + 1]
                /\ last' = [req EXCEPT !.status = 200, !.body = "success"]
        /\ UNCHANGED <<now, ticks, users, sessions, detections, uploads,
                       loginAttempts, pendingLogin, purged, attemptLog, passLog,
                       uploadLog, browsers, collect, client>>

-----------------------------------------------------------------------------
(* Time passes. *)

Tick(d) ==
    /\ ticks < MaxTicks
    /\ now' = now + d
    /\ ticks' = ticks + 1
    /\ last' = [NoRequest EXCEPT !.op = "tick"]
    /\ UNCHANGED <<users, sessions, routes, detections, uploads, gpsPoints,
                   loginAttempts, pendingLogin, nextId, purged, attemptLog,
                   passLog, uploadLog, browsers, collect, client>>

-----------------------------------------------------------------------------
(* The deployed system: the migrations applied and the three initial users *)
(* created, their passwords stored as the bcrypt hashes login compares.    *)

SeedUser(email, password, role) ==
    [email |-> email, password_hash |-> BcryptHash(password), role |-> role,
     is_active |-> TRUE, last_login |-> <<>>]

SeedUsers ==
    [id \in {"admin-id", "sampler-id", "viewer-id"} |->
        CASE id = "admin-id" -> SeedUser("admin@spore.local", "admin123", "admin")
          [] id = "sampler-id" -> SeedUser("sampler@test.com", "sampler123", "sampler")
          [] id = "viewer-id" -> SeedUser("viewer@test.com", "viewer123", "viewer")]

Empty == [x \in {} |-> x]

\* The browser tabs that show the upload component.
Browsers == {"tab1", "tab2"}

\* The component as mounted: no handleUpload call running, no result set.
\* pc is the call's position, g and r the group and the row it has come to,
\* row the route it is about to insert, peers the tabs whose calls ran at
\* the same time as this one.
IdleTab ==
    [pc |-> "idle", file |-> None, user |-> None, g |-> 0, r |-> 0,
     routeId |-> None, row |-> <<>>, errors |-> <<>>, routesProcessed |-> 0,
     detectionsAdded |-> 0, result |-> <<>>, peers |-> {}]

\* CollectTab as mounted, before its effects have run: the initial values of
\* its useState hooks, beside the entry of local storage under
\* 'field_collection_session' (saved: <<>> without an entry) and, as history,
\* the status under which the session offered for recovery was written.
Mounted(saved) ==
    [status |-> "idle", sampleId |-> "", startLocationName |-> "",
     endLocationName |-> "", currentPosition |-> <<>>, startPosition |-> <<>>,
     trackingPoints |-> <<>>, error |-> "", useManualEntry |-> FALSE,
     sessionRecovered |-> FALSE, saved |-> saved, offered |-> None]

\* A browser that never logged in: nothing under 'spore_session', no session
\* cookie, no request of AuthService on its way; as history, the tokens the
\* browser sent with a logout that has completed (loggedOut), and those among
\* them whose request the server answered (answered).
SignedOut ==
    [session |-> <<>>, cookie |-> None, pc |-> "idle",
     loggedOut |-> {}, answered |-> {}]

Init ==
    /\ now = 0
    /\ ticks = 0
    /\ users = SeedUsers
    /\ sessions = Empty
    /\ routes = Empty
    /\ detections = {}
    /\ uploads = <<>>
    /\ gpsPoints = {}
    /\ loginAttempts = Empty
    /\ pendingLogin = <<>>
    /\ nextId = [token |-> 1, user |-> 1, route |-> 1]
    /\ last = NoRequest
    /\ purged = {}
    /\ attemptLog = Empty
    /\ passLog = Empty
    /\ uploadLog = <<>>
    /\ browsers = [b \in Browsers |-> IdleTab]
    /\ collect = Mounted(<<>>)
    /\ client = SignedOut

-----------------------------------------------------------------------------
(* Spec: the session authenticator: login, requireAuth, logout, and the    *)
(* administrator's edits of users that bear on a session's validity.       *)

TokenInputs == {None} \cup {TokenOf(i) : i \in 1..MaxTokens}

\* The model stops sending login requests from an address after MaxTokens
\* attempts in one window.
FewAttempts(ip) ==
    IF ip \in DOMAIN loginAttempts THEN loginAttempts[ip].count < MaxTokens
    ELSE TRUE

Next ==
    \/ \E tok \in TokenInputs, role \in Roles : GuardedRead(tok, role)
    \/ \E email \in {"Admin@Spore.Local", "viewer@test.com", "nobody@test.com"},
          password \in {"admin123", "viewer123"} :
            /\ FewAttempts("10.0.0.1")
            /\ Login("10.0.0.1", email, password)
    \/ LoginIssue
    \/ \E tok \in TokenInputs : Logout(tok)
    \/ \E tok \in TokenInputs,
          change \in {<<<<"sampler">>, <<>>>>, <<<<>>, <<FALSE>>>>} :
            UsersPATCH(tok, "viewer-id", <<>>, change[1], change[2])
    \/ \E tok \in TokenInputs : UsersDELETE(tok, "viewer-id")
    \/ \E d \in {1, SESSION_MS} : Tick(d)

Spec == Init /\ [][Next]_vars

-----------------------------------------------------------------------------
(* The claims about the session authenticator, checked under Spec.         *)

\* The rank of a role as the specification orders them.
SpecRank == [r \in Roles |-> CASE r = "viewer" -> 1 [] r = "sampler" -> 2
                               [] r = "admin" -> 3]

\* The session of the token exists, expires strictly after t and belongs to
\* an existing, active user.
LiveSession(sess, usrs, t, tok) ==
    /\ tok \in DOMAIN sess
    /\ sess[tok].expires_at > t
    /\ sess[tok].user_id \in DOMAIN usrs
    /\ usrs[sess[tok].user_id].is_active

\* The requests that call requireAuth.
Requests == {"requireAuth", "users.POST", "users.PATCH", "users.DELETE"}

\* C1: when the cookie of a request identifies an existing, non-expired
\* session of an active user, requireAuth(request, requiredRole) returns the
\* user's {id, email, role} if rank(user.role) >= rank(requiredRole) and
\* answers 403 Forbidden otherwise, for every pair of roles.
C1_RoleHierarchy ==
    (last.op = "requireAuth" /\ LiveSession(sessions, users, now, last.token))
    => LET uid == sessions[last.token].user_id IN
       IF SpecRank[users[uid].role] >= SpecRank[last.required]
       THEN /\ last.status = 200
            /\ last.user = <<[id |-> uid, email |-> users[uid].email,
                              role |-> users[uid].role]>>
       ELSE /\ last.status = 403
            /\ last.body = "Forbidden"
            /\ last.user = <<>>

\* A sampler's session was refused an admin-gated request.
C1_Witness ==
    /\ last.op = "requireAuth"
    /\ LiveSession(sessions, users, now, last.token)
    /\ users[sessions[last.token].user_id].role = "sampler"
    /\ last.required = "admin"
    /\ last.status = 403

\* C2 (as claimed): requireAuth(token, 'viewer') succeeds iff a session row
\* with that token exists, its expires_at is strictly greater than the
\* current time and its user exists with is_active = true; a session whose
\* expires_at equals the current time is rejected.
C2_ValidIffStrictlyLater ==
    (last.op = "requireAuth" /\ last.required = "viewer")
    => (last.status = 200 <=> LiveSession(sessions, users, now, last.token))

\* C3: a requireAuth call with a token whose session has expires_at in the
\* past answers 401 'Session expired' and deletes that session row and no
\* other; every later call with the same token answers 401 'Unauthorized'
\* and deletes nothing.
C3_ExpiredIsDeletedOnce ==
    [][ last'.op \in Requests =>
          LET tok == last'.token IN
          /\ (tok \in DOMAIN sessions /\ sessions[tok].expires_at < now)
                => /\ last'.status = 401
                   /\ last'.body = "Session expired"
                   /\ tok \notin DOMAIN sessions'
                   /\ \A other \in (DOMAIN sessions) \ {tok} :
                        other \in DOMAIN sessions' /\ sessions'[other] = sessions[other]
                   /\ users' = users
          /\ [token |-> tok, by |-> "expired"] \in purged
                => /\ last'.status = 401
                   /\ last'.body = "Unauthorized"
                   /\ sessions' = sessions
                   /\ users' = users ]_vars

\* A token whose session was deleted as expired was presented again.
C3_Witness ==
    /\ last.op = "requireAuth"
    /\ [token |-> last.token, by |-> "expired"] \in purged
    /\ last.body = "Unauthorized"

\* C7 (as claimed): whenever login answers 200 with a session cookie T, the
\* sessions table holds the row {token = T, user_id = the authenticated
\* user, expires_at = issuance time + 24h}: login hands out no token that
\* has no persisted session.
C7_IssuedTokenIsPersisted ==
    (last.op = "login" /\ last.status = 200)
    => /\ last.cookie \in DOMAIN sessions
       /\ sessions[last.cookie] =
            [user_id |-> last.user[1].id, expires_at |-> now + SESSION_MS]

\* The three failures of a login the specification folds into one answer.
UnknownEmail(usrs, email) ==
    ~ \E id \in DOMAIN usrs : usrs[id].email = ToLowerCase(email)

InactiveUser(usrs, email) ==
    \E id \in DOMAIN usrs : usrs[id].email = ToLowerCase(email) /\ ~usrs[id].is_active

WrongPassword(usrs, email, password) ==
    \E id \in DOMAIN usrs :
        /\ usrs[id].email = ToLowerCase(email)
        /\ usrs[id].is_active
        /\ usrs[id].password_hash # <<"bcrypt", password>>

\* C8: a login attempt (not rate-limited) with an unknown e-mail, with the
\* e-mail of an inactive user, or with a wrong password for an active user
\* is answered by the same response in all three cases, 401 'Invalid
\* credentials' with no cookie and no user, and changes neither the
\* sessions table nor any user row (last_login included).
C8_UniformInvalidCredentials ==
    [][ ( /\ last'.op = "login"
          /\ pendingLogin = <<>>
          /\ last'.status # 429
          /\ \/ UnknownEmail(users, last'.email)
             \/ InactiveUser(users, last'.email)
             \/ WrongPassword(users, last'.email, last'.password) )
        => /\ [status |-> last'.status, body |-> last'.body,
               user |-> last'.user, cookie |-> last'.cookie]
                = [status |-> 401, body |-> "Invalid credentials",
                   user |-> <<>>, cookie |-> None]
           /\ sessions' = sessions
           /\ users' = users
           /\ pendingLogin' = <<>> ]_vars

\* The e-mail and password of a deactivated user were refused.
C8_Witness ==
    /\ last.op = "login"
    /\ last.status = 401
    /\ pendingLogin = <<>>
    /\ \E id \in DOMAIN users :
          /\ users[id].email = ToLowerCase(last.email)
          /\ ~users[id].is_active
          /\ users[id].password_hash = <<"bcrypt", last.password>>

\* C9: logout with token T deletes exactly the session row with token T and
\* leaves every other session (of the same user too) and the users as they
\* were, always answers success and clears the cookie; with an absent or
\* unknown token the store is unchanged; afterwards requireAuth(T, role)
\* fails for every role.
C9_LogoutDeletesExactlyOne ==
    [][ last'.op = "logout" =>
          LET tok == last'.token IN
          /\ last'.status = 200
          /\ last'.body = "success"
          /\ last'.cookie = ""
          /\ DOMAIN sessions' = (DOMAIN sessions) \ {tok}
          /\ \A other \in DOMAIN sessions' : sessions'[other] = sessions[other]
          /\ tok \notin DOMAIN sessions => sessions' = sessions
          /\ users' = users
          /\ \A role \in Roles :
                RequireAuth(sessions', users', now', tok, role).status # 200 ]_vars

\* One of two sessions of the same user was logged out; the other remains.
C9_Witness ==
    /\ last.op = "logout"
    /\ [token |-> last.token, by |-> "logout"] \in purged
    /\ \E other \in DOMAIN sessions :
          /\ other # last.token
          /\ sessions[other].user_id = "admin-id"
          /\ last.token = TokenOf(1)
    /\ nextId.token = 3

-----------------------------------------------------------------------------
(* SpecWrite: the handlers that insert, update or delete rows, with the    *)
(* login an administrator needs for the guarded ones.                      *)

NextWrite ==
    \/ /\ FewAttempts("10.0.0.1")
       /\ Login("10.0.0.1", "admin@spore.local", "admin123")
    \/ LoginIssue
    \/ \E tok \in TokenInputs, email \in {"new@test.com", "viewer@test.com"} :
          UsersPOST(tok, email, "new123", "New User", "sampler")
    \/ \E tok \in TokenInputs :
          UsersPATCH(tok, "viewer-id", <<>>, <<"sampler">>, <<>>)
    \/ \E tok \in TokenInputs : UsersDELETE(tok, "sampler-id")
    \/ \E sampleId \in {"25_01", " 25_01 "}, userId \in {None, "sampler-id"} :
          SamplesPOST(sampleId, userId, 1)
    \/ \E routeId \in {None} \cup {RouteIdOf(i) : i \in 1..MaxNewRoutes} :
          SamplesDELETE(routeId)

SpecWrite == Init /\ [][NextWrite]_vars

\* The handlers of the claim: those, other than login and logout, that write.
WriteOps == {"users.POST", "users.PATCH", "users.DELETE",
             "samples.POST", "samples.DELETE"}

\* The tables other than sessions.
store == <<users, routes, detections, uploads, gpsPoints>>

\* C4 (as claimed): every handler other than login and logout that inserts,
\* updates or deletes rows does so only after requireAuth has succeeded for
\* the same request; a request that carries no valid session leaves the
\* store unchanged.
C4_WritesOnlyAfterAuth ==
    [][ last'.op \in WriteOps =>
          /\ store' # store => last'.authed
          /\ ~LiveSession(sessions, users, now, last'.token) => store' = store
      ]_vars

-----------------------------------------------------------------------------
(* SpecRate: one client address logging in again and again, with the        *)
(* limiter's history written.                                              *)

MaxAttempts == 12

\* The address has made fewer than MaxAttempts attempts in its window.
MoreAttempts(ip) ==
    IF ip \in DOMAIN attemptLog /\ now <= attemptLog[ip].start + WINDOW_MS
    THEN attemptLog[ip].n < MaxAttempts
    ELSE TRUE

NextRate ==
    \/ \E password \in {"viewer123", "viewer124"} :
          /\ MoreAttempts("10.0.0.1")
          /\ LoginLogged("10.0.0.1", "viewer@test.com", password)
    \/ LoginIssue
    \/ \E d \in {1, WINDOW_MS} : Tick(d)

SpecRate == Init /\ [][NextRate]_vars

\* The credentials of the request are those of an active user.
CorrectCredentials(usrs, email, password) ==
    \E id \in DOMAIN usrs :
        /\ usrs[id].email = ToLowerCase(email)
        /\ usrs[id].is_active
        /\ usrs[id].password_hash = <<"bcrypt", password>>

\* C5: once an address has made 10 login attempts inside its current
\* 15-minute window, a further attempt inside that window is answered 429
\* before any credential is looked at, correct credentials included, and
\* writes nothing; the first attempt after the window has elapsed is
\* checked normally and goes through with correct credentials.
C5_EleventhAttemptLimited ==
    [][ (last'.op = "login" /\ pendingLogin = <<>> /\ last'.ip \in DOMAIN attemptLog)
        => LET w == attemptLog[last'.ip] IN
           /\ (now <= w.start + WINDOW_MS /\ w.n >= MAX_ATTEMPTS)
                => /\ last'.status = 429
                   /\ last'.body = "Too many login attempts. Please try again later."
                   /\ last'.cookie = None
                   /\ pendingLogin' = <<>>
                   /\ sessions' = sessions
                   /\ users' = users
           /\ (now > w.start + WINDOW_MS
                 /\ CorrectCredentials(users, last'.email, last'.password))
                => /\ last'.status # 429
                   /\ pendingLogin' # <<>>
                   /\ pendingLogin'[1].id \in DOMAIN users ]_vars

\* After a window in which attempts were refused, the first attempt of the
\* next window went through with correct credentials.
C5_Witness ==
    /\ last.op = "login"
    /\ pendingLogin # <<>>
    /\ "10.0.0.1" \in DOMAIN attemptLog
    /\ attemptLog["10.0.0.1"].n = 1
    /\ attemptLog["10.0.0.1"].prev > MAX_ATTEMPTS

RECURSIVE SumOver(_, _)
SumOver(f, S) ==
    IF S = {} THEN 0
    ELSE LET x == CHOOSE y \in S : TRUE IN f[x] + SumOver(f, S \ {x})

\* The attempts of the address that reached the credential check at an
\* instant t with from <= t < from + WINDOW_MS.
PassedWithin(ip, from) ==
    SumOver(passLog[ip],
            {t \in DOMAIN passLog[ip] : from <= t /\ t < from + WINDOW_MS})

\* C6 (as claimed): the limit is a rolling window: for every address and
\* every interval of length WINDOW, at most 10 login attempts of the address
\* pass the limiter and reach the credential check.
C6_RollingWindow ==
    \A ip \in DOMAIN passLog : \A from \in DOMAIN passLog[ip] :
        PassedWithin(ip, from) <= MAX_ATTEMPTS

-----------------------------------------------------------------------------
(* The metabarcode upload component (MetabarcodeUpload).  A text is the     *)
(* sequence of its tokens: the separators "," "/" and the line feed, the   *)
(* quotes, the blank, and the words between them.  Where a value is used   *)
(* more than once it is bound by x \in {value}, which evaluates it once.   *)

The(S) == CHOOSE x \in S : TRUE

\* The k-th smallest element of a set of positions.
Nth(P, k) == CHOOSE i \in P : Cardinality({j \in P : j <= i}) = k

\* The pieces of t between the separators at the positions P.
PiecesAt(t, P) ==
    [k \in 1..(Cardinality(P) + 1) |->
        SubSeq(t, IF k = 1 THEN 1 ELSE Nth(P, k - 1) + 1,
                  IF k = Cardinality(P) + 1 THEN Len(t) ELSE Nth(P, k) - 1)]

\* String.prototype.split(sep)
Split(text, sep) ==
    The({The({PiecesAt(t, P) : P \in {{i \in 1..Len(t) : t[i] = sep}}})
         : t \in {text}})

IsSpace(tok) == tok \in {" ", "\t", "\r", "\n"}

\* t from its first to its last token that is not white space.
Between(t, S) ==
    IF S = {} THEN <<>> ELSE SubSeq(t, Nth(S, 1), Nth(S, Cardinality(S)))

\* String.prototype.trim on a text.
TrimText(text) ==
    The({The({Between(t, S) : S \in {{i \in 1..Len(t) : ~IsSpace(t[i])}}})
         : t \in {text}})

\* The string a text spells.
RECURSIVE Join(_)
Join(text) ==
    The({IF t = <<>> THEN "" ELSE Head(t) \o Join(Tail(t)) : t \in {text}})

\* The last column that carries the header h.
ColumnOf(headers, h) ==
    CHOOSE i \in 1..Len(headers) :
        headers[i] = h /\ \A j \in (i + 1)..Len(headers) : headers[j] # h

\* The row object of one line: row[header] = values[index]?.trim() || ''.
RowOf(headers, values) ==
    [h \in {headers[i] : i \in 1..Len(headers)} |->
        TrimText(values[ColumnOf(headers, h)])]

\* The loop over lines[1..]: a line with fewer cells than headers is skipped.
RowsOf(headers, lines) ==
    LET cells == [i \in 1..Len(lines) |-> Split(lines[i], ",")]
        kept == SelectSeq(cells, LAMBDA values : Len(values) >= Len(headers))
    IN  [i \in 1..Len(kept) |-> RowOf(headers, kept[i])]

\* parseCSV(text)
ParseCSV(text) ==
    The({IF Len(lines) < 2 THEN <<>>
         ELSE The({RowsOf([i \in 1..Len(cells) |-> Join(TrimText(cells[i]))],
                          Tail(lines))
                   : cells \in {Split(lines[1], ",")}})
         : lines \in {SelectSeq(Split(text, "\n"), LAMBDA l : TrimText(l) # <<>>)}})

\* The words that start with a number, and the integer parseInt reads there.
IntPrefix ==
    [tok \in {"-31.95", "115.86", "-31.39", "116.09", "3146", "1234", "0",
              "30", "07", "7", "2025"} |->
        CASE tok = "-31.95" -> -31  [] tok = "115.86" -> 115
          [] tok = "-31.39" -> -31  [] tok = "116.09" -> 116
          [] tok = "3146" -> 3146   [] tok = "1234" -> 1234
          [] tok = "0" -> 0         [] tok = "30" -> 30
          [] tok = "07" -> 7        [] tok = "7" -> 7
          [] tok = "2025" -> 2025]

NaN == "NaN"

\* parseFloat(s): the number the string starts with after its white space
\* (kept as written), or NaN.
ParseFloat(text) ==
    The({IF t # <<>> /\ Head(t) \in DOMAIN IntPrefix THEN Head(t) ELSE NaN
         : t \in {TrimText(text)}})

\* parseInt(s): <<n>>, or <<>> for NaN.
ParseInt(text) ==
    The({IF t # <<>> /\ Head(t) \in DOMAIN IntPrefix THEN <<IntPrefix[Head(t)]>>
         ELSE <<>>
         : t \in {TrimText(text)}})

\* coordString.replace(/["']/g, '').trim()
Cleaned(coordString) ==
    TrimText(SelectSeq(coordString, LAMBDA c : c \notin {"\"", "'"}))

\* cleaned.split(',').map(p => parseFloat(p.trim()))
Floats(cleaned) ==
    The({[i \in 1..Len(pieces) |-> ParseFloat(TrimText(pieces[i]))]
         : pieces \in {Split(cleaned, ",")}})

\* parseCoordinates(coordString): <<lat, lon>>, or <<>> for null.
ParseCoordinates(coordString) ==
    The({IF Len(parts) = 2 /\ parts[1] # NaN /\ parts[2] # NaN
         THEN <<parts[1], parts[2]>>
         ELSE <<>>
         : parts \in {Floats(Cleaned(coordString))}})

\* String.prototype.padStart(2, '0') on the words of a date.
PadStart2(s) ==
    IF s = "" THEN "00"
    ELSE IF s \in {"0", "1", "2", "3", "4", "5", "6", "7", "8", "9"} THEN "0" \o s
    ELSE s

\* parseDate(dateString)
ParseDate(dateString) ==
    The({IF Len(parts) = 3
         THEN Join(parts[3]) \o "-" \o PadStart2(Join(parts[2])) \o "-"
                 \o PadStart2(Join(parts[1]))
         ELSE Join(dateString)
         : parts \in {Split(dateString, "/")}})

\* The seeded rows of pathogen_species, by species_name.
SpeciesNames ==
    {"Puccinia striiformis", "Puccinia graminis", "Puccinia triticina",
     "Fusarium graminearum", "Fusarium pseudograminearum", "Septoria tritici",
     "Pyrenophora tritici-repentis", "Rhynchosporium secalis"}

\* The strings the DATE column collection_date accepts.
IsDate(s) == s \in {"2025-07-30", "2025-07-31"}

\* row.<name> as a string, undefined without such a column.
Field(row, name) == IF name \in DOMAIN row THEN Join(row[name]) ELSE "undefined"

\* One row of a sample: parseInt(row.read_count), the species lookup and the
\* upsert on (route_id, pathogen_species_id).
ProcessRow(acc, sampleId, routeId, row) ==
    The({IF readCount = <<>>
         THEN [acc EXCEPT !.errors =
                  Append(@, <<sampleId, "Invalid read count for", species>>)]
         ELSE IF species \notin SpeciesNames
         THEN [acc EXCEPT !.errors =
                  Append(@, <<sampleId, "Unknown species", species>>)]
         ELSE [acc EXCEPT
                 !.detections =
                     {d \in @ : ~(d.route_id = routeId
                                  /\ d.pathogen_species_id = species)}
                     \cup {[route_id |-> routeId, pathogen_species_id |-> species,
                            read_count |-> readCount[1]]},
                 !.detectionsAdded = @ + 1]
         : species \in {Field(row, "species")},
           readCount \in {IF "read_count" \in DOMAIN row
                          THEN ParseInt(row["read_count"]) ELSE <<>>}})

\* 'for (const row of sampleRows)', from the i-th row on.
RECURSIVE ProcessRows(_, _, _, _, _)
ProcessRows(acc, sampleId, routeId, sampleRows, i) ==
    IF i > Len(sampleRows) THEN acc
    ELSE The({ProcessRows(a, sampleId, routeId, sampleRows, i + 1)
              : a \in {ProcessRow(acc, sampleId, routeId, sampleRows[i])}})

\* The sample_uploads row and the detections of one sample, once its route
\* is known.
RecordSample(acc, sampleId, routeId, sampleRows, file, userId) ==
    ProcessRows([acc EXCEPT !.uploads =
                    Append(@, [route_id |-> routeId, uploaded_by |-> userId,
                               filename |-> file.name,
                               row_count |-> Len(sampleRows)])],
                sampleId, routeId, sampleRows, 1)

\* The row handleUpload inserts into sampling_routes.
RouteRow(sampleId, firstRow, startCoords, endCoords, userId) ==
    [sample_id |-> sampleId,
     start_name |-> IF "start_name" \in DOMAIN firstRow
                    THEN Join(firstRow["start_name"]) ELSE None,
     end_name |-> IF "end_name" \in DOMAIN firstRow
                  THEN Join(firstRow["end_name"]) ELSE None,
     start_latitude |-> startCoords[1], start_longitude |-> startCoords[2],
     end_latitude |-> endCoords[1], end_longitude |-> endCoords[2],
     collection_date |-> ParseDate(firstRow["collection_date"]),
     created_by |-> userId]

\* The route lookup by sample_id and, without a route, its creation; then
\* the sample's upload record and detections.
FindOrCreateRoute(acc, sampleId, sampleRows, row, file, userId) ==
    The({IF Cardinality(existing) = 1
         THEN RecordSample(acc, sampleId, The(existing), sampleRows, file, userId)
         ELSE IF \/ RouteInsertFails(acc.routes, users, row)
                 \/ ~IsDate(row.collection_date)
                 \/ row.start_name = None \/ row.end_name = None
         THEN [acc EXCEPT !.errors =
                  Append(@, <<sampleId, "Failed to create route">>)]
         ELSE RecordSample([acc EXCEPT !.routes = Put(@, RouteIdOf(acc.next), row),
                                       !.next = @ + 1,
                                       !.routesProcessed = @ + 1],
                           sampleId, RouteIdOf(acc.next), sampleRows, file, userId)
         : existing \in {{r \in DOMAIN acc.routes :
                             acc.routes[r].sample_id = sampleId}}})

\* One iteration of 'for (const [sampleId, sampleRows] of sampleGroups)'.
\* Reading start_point, end_point or collection_date of a row without that
\* column throws, which ends the loop.
ProcessGroup(acc, sampleId, sampleRows, file, userId) ==
    IF {"start_point", "end_point"} \ DOMAIN sampleRows[1] # {}
    THEN [acc EXCEPT !.thrown = TRUE]
    ELSE The({IF startCoords = <<>> \/ endCoords = <<>>
              THEN [acc EXCEPT !.errors =
                       Append(@, <<sampleId, "Invalid coordinates">>)]
              ELSE IF "collection_date" \notin DOMAIN sampleRows[1]
              THEN [acc EXCEPT !.thrown = TRUE]
              ELSE The({FindOrCreateRoute(acc, sampleId, sampleRows, row,
                                          file, userId)
                        : row \in {RouteRow(sampleId, sampleRows[1], startCoords,
                                            endCoords, userId)}})
              : startCoords \in {ParseCoordinates(sampleRows[1]["start_point"])},
                endCoords \in {ParseCoordinates(sampleRows[1]["end_point"])}})

\* The keys of sampleGroups in insertion order: the sample ids of the rows,
\* each at its first occurrence.
GroupIds(rows) ==
    The({SelectSeq([i \in 1..Len(ids) |-> <<i, ids[i]>>],
                   LAMBDA p : \A j \in 1..(p[1] - 1) : ids[j] # p[2])
         : ids \in {[i \in 1..Len(rows) |-> Field(rows[i], "sample_id")]}})

GroupOf(rows, id) == SelectSeq(rows, LAMBDA r : Field(r, "sample_id") = id)

\* The loop over sampleGroups, from the i-th group on.
RECURSIVE ProcessGroups(_, _, _, _, _, _)
ProcessGroups(acc, ids, i, rows, file, userId) ==
    IF i > Len(ids) \/ acc.thrown THEN acc
    ELSE The({ProcessGroups(a, ids, i + 1, rows, file, userId)
              : a \in {The({ProcessGroup(acc, ids[i][2], g, file, userId)
                            : g \in {GroupOf(rows, ids[i][2])}})}})

\* The header line of the documented format.
HeaderLine ==
    <<"sample_id", ",", "start_name", ",", "start_point", ",", "end_name", ",",
      "end_point", ",", "species", ",", "read_count", ",", "collection_date">>

\* The data line the component shows under 'Expected CSV Format'.
DocumentedLine ==
    <<"25_01", ",", "Perth", ",", "\"", "-31.95", ",", " ", "115.86", "\"", ",",
      "Bindoon", ",", "\"", "-31.39", ",", " ", "116.09", "\"", ",",
      "Puccinia striiformis", ",", "3146", ",", "30", "/", "07", "/", "2025">>

\* A second species of the same sample.
SecondLine ==
    <<"25_01", ",", "Perth", ",", "\"", "-31.95", ",", " ", "115.86", "\"", ",",
      "Bindoon", ",", "\"", "-31.39", ",", " ", "116.09", "\"", ",",
      "Puccinia graminis", ",", "1234", ",", "30", "/", "07", "/", "2025">>

\* A line whose points are written without quotes and without a comma.
BlankSeparatedLine ==
    <<"25_02", ",", "Perth", ",", "-31.95", " ", "115.86", ",",
      "Bindoon", ",", "-31.39", " ", "116.09", ",",
      "Puccinia triticina", ",", "0", ",", "2025-07-31">>

\* A line with fewer cells than the header.
ShortLine == <<"25_03", ",", "Perth">>

\* A line of another sample whose points are not numbers.
InvalidPointLine ==
    <<"25_03", ",", "Moora", ",", "unknown", ",", "Dalwallinu", ",", "unknown",
      ",", "Puccinia triticina", ",", "30", ",", "30", "/", "07", "/", "2025">>

\* A line of sample 25_01 whose species is not a row of pathogen_species.
UnknownSpeciesLine ==
    <<"25_01", ",", "Perth", ",", "\"", "-31.95", ",", " ", "115.86", "\"", ",",
      "Bindoon", ",", "\"", "-31.39", ",", " ", "116.09", "\"", ",",
      "Puccinia hordei", ",", "30", ",", "30", "/", "07", "/", "2025">>

\* A line of a second sample in the documented format.
OtherSampleLine ==
    <<"25_02", ",", "Perth", ",", "\"", "-31.95", ",", " ", "115.86", "\"", ",",
      "Bindoon", ",", "\"", "-31.39", ",", " ", "116.09", "\"", ",",
      "Puccinia triticina", ",", "0", ",", "30", "/", "07", "/", "2025">>

\* A header without the columns of the points and the date, and a line for it.
ShortHeaderLine == <<"sample_id", ",", "species", ",", "read_count">>

NoPointsLine == <<"25_01", ",", "Puccinia striiformis", ",", "3146">>

\* Two more lines for that header: a second species, a second sample.
NoPointsSecondLine == <<"25_01", ",", "Puccinia graminis", ",", "1234">>

NoPointsOtherLine == <<"25_02", ",", "Puccinia triticina", ",", "0">>

\* A line of sample 25_01 whose species cell is empty, and a line of empty
\* cells, as a spreadsheet leaves at the end of its export.
EmptySpeciesLine ==
    <<"25_01", ",", "Perth", ",", "\"", "-31.95", ",", " ", "115.86", "\"", ",",
      "Bindoon", ",", "\"", "-31.39", ",", " ", "116.09", "\"", ",",
      ",", "3146", ",", "30", "/", "07", "/", "2025">>

EmptyCellsLine == <<",", ",", ",", ",", ",", ",", ",">>

\* The data line of the format in the README, with a read count of 1234.
ScenarioLine ==
    <<"25_01", ",", "Perth", ",", "\"", "-31.95", ",", " ", "115.86", "\"", ",",
      "Bindoon", ",", "\"", "-31.39", ",", " ", "116.09", "\"", ",",
      "Puccinia striiformis", ",", "1234", ",", "30", "/", "07", "/", "2025">>

\* The files a user selects.
Files ==
    {[name |-> "documented.csv", text |-> HeaderLine \o <<"\n">> \o DocumentedLine],
     [name |-> "two-species.csv",
      text |-> HeaderLine \o <<"\n">> \o DocumentedLine \o <<"\n">> \o SecondLine
                 \o <<"\n">>],
     [name |-> "blank-separated.csv",
      text |-> HeaderLine \o <<"\r", "\n">> \o BlankSeparatedLine \o <<"\r", "\n">>],
     [name |-> "short.csv", text |-> HeaderLine \o <<"\n">> \o ShortLine],
     [name |-> "header-only.csv", text |-> HeaderLine \o <<"\n">>],
     [name |-> "scenario.csv", text |-> HeaderLine \o <<"\n">> \o ScenarioLine],
     [name |-> "invalid-first.csv",
      text |-> HeaderLine \o <<"\n">> \o InvalidPointLine \o <<"\n">>
                 \o DocumentedLine \o <<"\n">> \o SecondLine],
     [name |-> "invalid-last.csv",
      text |-> HeaderLine \o <<"\n">> \o DocumentedLine \o <<"\n">> \o SecondLine
                 \o <<"\n">> \o InvalidPointLine],
     [name |-> "unknown-species.csv",
      text |-> HeaderLine \o <<"\n">> \o DocumentedLine \o <<"\n">>
                 \o UnknownSpeciesLine \o <<"\n">> \o SecondLine],
     [name |-> "two-samples.csv",
      text |-> HeaderLine \o <<"\n">> \o DocumentedLine \o <<"\n">>
                 \o OtherSampleLine \o <<"\n">>],
     [name |-> "no-points.csv",
      text |-> ShortHeaderLine \o <<"\n">> \o NoPointsLine],
     [name |-> "empty-fields.csv",
      text |-> HeaderLine \o <<"\n">> \o DocumentedLine \o <<"\n">>
                 \o EmptySpeciesLine \o <<"\n">> \o EmptyCellsLine \o <<"\n">>],
     [name |-> "empty.csv", text |-> <<>>],
     [name |-> "no-points-two-samples.csv",
      text |-> ShortHeaderLine \o <<"\n">> \o NoPointsLine \o <<"\n">>
                 \o NoPointsSecondLine \o <<"\n">> \o NoPointsOtherLine]}

\* parseCSV(await file.text()) of each of the files, computed once.
RowsOfFile == [file \in Files |-> ParseCSV(file.text)]

\* if (rows.length === 0)
NoRowsNever(rows) == FALSE

NoRows(rows) == rows = <<>>

\* success: errors.length < rows.length
SuccessUpToAll(errors, rows) == Len(errors) <= Len(rows)

Success(errors, rows) == Len(errors) < Len(rows)

\* The UploadResult handleUpload sets, with the tables it leaves.
UploadOutcome(file, userId) ==
    LET rows == RowsOfFile[file]
        start == [routes |-> routes, detections |-> detections,
                  uploads |-> uploads, next |-> nextId.route, errors |-> <<>>,
                  routesProcessed |-> 0, detectionsAdded |-> 0, thrown |-> FALSE]
    IN  IF NoRows(rows)
        THEN [start EXCEPT !.errors = <<<<"CSV file is empty or invalid">>>>]
                @@ [success |-> FALSE, message |-> "No valid data found in CSV"]
        ELSE The({IF done.thrown
                  THEN [done EXCEPT !.routesProcessed = 0, !.detectionsAdded = 0,
                                    !.errors = <<<<"TypeError">>>>]
                          @@ [success |-> FALSE, message |-> "Upload failed"]
                  ELSE done @@ [success |-> Success(done.errors, rows),
                                message |-> "Processed samples"]
                  : done \in {ProcessGroups(start, GroupIds(rows), 1, rows,
                                            file, userId)}})

\* handleUpload() with the selected file, by the user of the browser.
HandleUpload(file, userId) ==
    \E out \in {UploadOutcome(file, userId)} :
        /\ out.next <= MaxNewRoutes + 1
        /\ routes' = out.routes
        /\ detections' = out.detections
        /\ uploads' = out.uploads
        /\ nextId' = [nextId EXCEPT !.route = out.next]
        /\ last' = [NoRequest EXCEPT !.op = "upload", !.target = file.name,
                                     !.body = out.message]
        /\ uploadLog' =
              (IF uploadLog = <<>> THEN <<>> ELSE <<uploadLog[Len(uploadLog)]>>)
              \o <<[file |-> file.name,
                    result |-> [success |-> out.success, message |-> out.message,
                                routesProcessed |-> out.routesProcessed,
                                detectionsAdded |-> out.detectionsAdded,
                                errors |-> out.errors],
                    before |-> <<routes, detections>>,
                    after |-> <<out.routes, out.detections>>]>>
        /\ UNCHANGED <<now, ticks, users, sessions, gpsPoints, loginAttempts,
                       pendingLogin, purged, attemptLog, passLog, browsers,
                       collect, client>>

-----------------------------------------------------------------------------
(* SpecIngest: CSV files uploaded one after the other, beside the Collect  *)
(* tab's requests that create and delete routes.                           *)

NextIngest ==
    \/ \E file \in Files : HandleUpload(file, "sampler-id")
    \/ \E sampleId \in {"25_01", "25_02"} : SamplesPOST(sampleId, "sampler-id", 0)
    \/ \E routeId \in {RouteIdOf(i) : i \in 1..MaxNewRoutes} : SamplesDELETE(routeId)

SpecIngest == Init /\ [][NextIngest]_vars

\* What the valid files hold: per file, its (sample, species, read count).
ValidContent ==
    [name \in {"documented.csv", "two-species.csv"} |->
        IF name = "documented.csv"
        THEN {[sample_id |-> "25_01", species |-> "Puccinia striiformis",
               read_count |-> 3146]}
        ELSE {[sample_id |-> "25_01", species |-> "Puccinia striiformis",
               read_count |-> 3146],
              [sample_id |-> "25_01", species |-> "Puccinia graminis",
               read_count |-> 1234]}]

\* The detection rows of a sample and species.
DetectionsOf(sampleId, species) ==
    {d \in detections :
        /\ d.pathogen_species_id = species
        /\ d.route_id \in DOMAIN routes
        /\ routes[d.route_id].sample_id = sampleId}

\* The same valid file was uploaded twice in sequence: the second upload
\* started from the tables the first one left.
UploadedTwice ==
    /\ Len(uploadLog) = 2
    /\ uploadLog[1].file = uploadLog[2].file
    /\ uploadLog[1].file \in DOMAIN ValidContent
    /\ uploadLog[2].before = uploadLog[1].after
    /\ last.op = "upload"

-----------------------------------------------------------------------------
(* Claims about single uploads, under SpecIngest.                          *)

\* The last upload was of the named file.
Uploaded(name) ==
    /\ uploadLog # <<>>
    /\ last.op = "upload"
    /\ uploadLog[Len(uploadLog)].file = name

\* The entry of the last upload.
LastUpload == uploadLog[Len(uploadLog)]

\* The routes with a sample id, in a routes table.
RoutesOf(rts, sampleId) == {r \in DOMAIN rts : rts[r].sample_id = sampleId}

\* C11 (as claimed): ingesting the one-row file of the documented format
\* (sample 25_01, Puccinia striiformis, read count 1234, 30/07/2025, quoted
\* points) into a store without routes reports routesProcessed = 1,
\* detectionsAdded = 1 and no errors, and leaves one route with
\* collection_date 2025-07-30 and the parsed points, and one detection of
\* that route and species with read_count 1234.
C11_ScenarioIngested ==
    (Uploaded("scenario.csv") /\ DOMAIN LastUpload.before[1] = {}) =>
        /\ LastUpload.result.routesProcessed = 1
        /\ LastUpload.result.detectionsAdded = 1
        /\ LastUpload.result.errors = <<>>
        /\ Cardinality(DOMAIN routes) = 1
        /\ \A r \in DOMAIN routes :
              /\ routes[r].sample_id = "25_01"
              /\ routes[r].collection_date = "2025-07-30"
              /\ routes[r].start_latitude = "-31.95"
              /\ routes[r].start_longitude = "115.86"
              /\ routes[r].end_latitude = "-31.39"
              /\ routes[r].end_longitude = "116.09"
              /\ detections = {[route_id |-> r,
                                pathogen_species_id |-> "Puccinia striiformis",
                                read_count |-> 1234]}

\* The errors of the last upload that report invalid coordinates.
CoordinateErrors ==
    SelectSeq(LastUpload.result.errors,
              LAMBDA e : Len(e) = 2 /\ e[2] = "Invalid coordinates")

\* C12 (as claimed): a file with one group whose coordinates do not parse
\* (25_03) and one valid group (25_01, two species), in either order of the
\* groups, yields exactly one 'Invalid coordinates' error, that of 25_03;
\* 25_03 gets no route, no audit row and no detection; the route of 25_01
\* and both of its detections are created.
C12_InvalidGroupIsolated ==
    ((Uploaded("invalid-first.csv") \/ Uploaded("invalid-last.csv"))
        /\ DOMAIN LastUpload.before[1] = {}) =>
        /\ CoordinateErrors = <<<<"25_03", "Invalid coordinates">>>>
        /\ RoutesOf(routes, "25_03") = {}
        /\ \A i \in 1..Len(uploads) : uploads[i].route_id \in RoutesOf(routes, "25_01")
        /\ Cardinality(RoutesOf(routes, "25_01")) = 1
        /\ \A r \in RoutesOf(routes, "25_01") :
              detections = {[route_id |-> r,
                             pathogen_species_id |-> "Puccinia striiformis",
                             read_count |-> 3146],
                            [route_id |-> r,
                             pathogen_species_id |-> "Puccinia graminis",
                             read_count |-> 1234]}

\* C13 (as claimed): a file whose sample 25_01 has a row of a species that is
\* not in pathogen_species (Puccinia hordei) between two rows of known
\* species yields exactly one error, '25_01: Unknown species Puccinia hordei',
\* stores no detection of that species, and upserts the two other rows.
C13_UnknownSpeciesSkipped ==
    (Uploaded("unknown-species.csv") /\ DOMAIN LastUpload.before[1] = {}) =>
        /\ LastUpload.result.errors
              = <<<<"25_01", "Unknown species", "Puccinia hordei">>>>
        /\ LastUpload.result.detectionsAdded = 2
        /\ \A d \in detections : d.pathogen_species_id \in SpeciesNames
        /\ Cardinality(DetectionsOf("25_01", "Puccinia striiformis")) = 1
        /\ Cardinality(DetectionsOf("25_01", "Puccinia graminis")) = 1

\* C15 (as claimed): when a route with the sample id of a group exists before
\* the upload (here 25_01, created from the Collect tab with other names and
\* another date than the file's), the upload reuses that route: it creates
\* no route (routesProcessed = 0), leaves the routes table as it was, with
\* one route of that sample id, and its audit row and its detection carry
\* the id of the existing route.
C15_ExistingRouteReused ==
    (Uploaded("documented.csv")
        /\ Cardinality(RoutesOf(LastUpload.before[1], "25_01")) = 1) =>
        /\ LastUpload.result.routesProcessed = 0
        /\ routes = LastUpload.before[1]
        /\ Cardinality(RoutesOf(routes, "25_01")) = 1
        /\ \A r \in RoutesOf(routes, "25_01") :
              /\ \E i \in 1..Len(uploads) :
                    uploads[i].route_id = r /\ uploads[i].filename = "documented.csv"
              /\ [route_id |-> r, pathogen_species_id |-> "Puccinia striiformis",
                  read_count |-> 3146] \in detections

\* The number of samples (distinct sample ids) of the files in the
\* documented format.
SamplesIn ==
    [name \in {"documented.csv", "two-species.csv", "scenario.csv",
               "two-samples.csv"} |->
        IF name = "two-samples.csv" THEN 2 ELSE 1]

\* C16 (as claimed): every upload of a valid file with m samples appends
\* exactly m rows to sample_uploads and leaves the rows that were there as
\* they were, so that k uploads in sequence add k*m rows; and an upload that
\* repeats the previous upload's file leaves the detections as that one left
\* them.
C16_AuditRowsAccumulate ==
    [][(last'.op = "upload" /\ last'.target \in DOMAIN SamplesIn) =>
          /\ Len(uploads') = Len(uploads) + SamplesIn[last'.target]
          /\ SubSeq(uploads', 1, Len(uploads)) = uploads
          /\ (last.op = "upload" /\ last.target = last'.target)
                => detections' = detections]_vars

\* The number of data lines of each file that have at least as many cells
\* as the header.
DataRows ==
    [name \in {f.name : f \in Files} |->
        CASE name \in {"header-only.csv", "short.csv", "empty.csv"} -> 0
          [] name \in {"documented.csv", "scenario.csv", "blank-separated.csv",
                       "no-points.csv"} -> 1
          [] name \in {"two-species.csv", "two-samples.csv"} -> 2
          [] OTHER -> 3]

\* C17 (as claimed): the success flag of an upload is false whenever no
\* detection was upserted for any row of the file, and true whenever at
\* least one row was ingested.
C17_SuccessIffSomeRowIngested ==
    (uploadLog # <<>> /\ last.op = "upload") =>
        LastUpload.result.success = (LastUpload.result.detectionsAdded >= 1)

\* C17 (amended): the success flag of an upload is true exactly when the
\* upload ran to its end and recorded fewer error strings than the file has
\* data rows; it is false when the file has no data row and when the upload
\* threw.
C17_SuccessIffFewerErrorsThanRows ==
    (uploadLog # <<>> /\ last.op = "upload") =>
        LastUpload.result.success
           = (/\ LastUpload.result.message = "Processed samples"
              /\ Len(LastUpload.result.errors) < DataRows[LastUpload.file])

\* An upload that is flagged a success although it upserted no detection:
\* two groups failed, with three rows between them.
C17_Witness ==
    /\ Uploaded("invalid-last.csv")
    /\ LastUpload.result.success
    /\ LastUpload.result.detectionsAdded = 0
    /\ Len(LastUpload.result.errors) = 2

\* C18 (as claimed): the rows of a file whose sample_id or species is empty
\* are dropped by the parser: of the three data lines of empty-fields.csv
\* (a documented line of 25_01, a line of 25_01 without species, a line of
\* empty cells) only the first counts.  No error string names the sample id
\* '', nothing is stored for it, and the success flag compares the errors
\* with a row total of 1.
C18_EmptyFieldRowsDiscarded ==
    Uploaded("empty-fields.csv") =>
        /\ \A i \in 1..Len(LastUpload.result.errors) :
              LastUpload.result.errors[i][1] # ""
        /\ RoutesOf(routes, "") = {}
        /\ LastUpload.result.success = (Len(LastUpload.result.errors) < 1)

-----------------------------------------------------------------------------
(* handleUpload step by step.  The call gives way at every await; between  *)
(* two awaits the calls of other tabs may run against the same tables.     *)

FileNamed(name) == The({f \in Files : f.name = name})

\* The groups of each file, in the order of sampleGroups, computed once.
GroupsOfFile == [file \in Files |-> GroupIds(RowsOfFile[file])]

\* setResult(...) at the end of the call.
Finished(tab, success, message, routesProcessed, detectionsAdded, errors) ==
    [tab EXCEPT !.pc = "done",
                !.result = <<[success |-> success, message |-> message,
                              routesProcessed |-> routesProcessed,
                              detectionsAdded |-> detectionsAdded,
                              errors |-> errors]>>]

\* The catch block.
Caught(tab) == Finished(tab, FALSE, "Upload failed", 0, 0, <<<<"TypeError">>>>)

\* What a tab and the tables become when nothing is written.
Local(tab) ==
    [tab |-> tab, routes |-> routes, detections |-> detections,
     uploads |-> uploads, next |-> nextId.route]

\* The head of the loop over sampleGroups for group g: the coordinates of
\* the group's first row and the lookup of its route; after the last group,
\* the result.
AtGroup(tab, rows, ids) ==
    IF tab.g > Len(ids)
    THEN Local(Finished(tab, Success(tab.errors, rows), "Processed samples",
                        tab.routesProcessed, tab.detectionsAdded, tab.errors))
    ELSE The({
        IF {"start_point", "end_point"} \ DOMAIN sampleRows[1] # {}
        THEN Local(Caught(tab))
        ELSE The({
            IF startCoords = <<>> \/ endCoords = <<>>
            THEN Local([tab EXCEPT
                          !.errors = Append(@, <<sampleId, "Invalid coordinates">>),
                          !.g = @ + 1])
            ELSE IF "collection_date" \notin DOMAIN sampleRows[1]
            THEN Local(Caught(tab))
            ELSE The({
                IF Cardinality(existing) = 1
                THEN Local([tab EXCEPT !.pc = "audit", !.routeId = The(existing)])
                ELSE Local([tab EXCEPT
                              !.pc = "insert",
                              !.row = <<RouteRow(sampleId, sampleRows[1], startCoords,
                                                 endCoords, tab.user)>>])
                : existing \in {RoutesOf(routes, sampleId)}})
            : startCoords \in {ParseCoordinates(sampleRows[1]["start_point"])},
              endCoords \in {ParseCoordinates(sampleRows[1]["end_point"])}})
        : sampleId \in {ids[tab.g][2]},
          sampleRows \in {GroupOf(rows, ids[tab.g][2])}})

\* The insert into sampling_routes and 'if (routeError || !newRoute)'.
AtInsert(tab, ids) ==
    The({
        IF \/ RouteInsertFails(routes, users, row)
           \/ ~IsDate(row.collection_date)
           \/ row.start_name = None \/ row.end_name = None
        THEN Local([tab EXCEPT
                      !.pc = "group", !.g = @ + 1, !.row = <<>>,
                      !.errors = Append(@, <<sampleId, "Failed to create route">>)])
        ELSE [Local([tab EXCEPT !.pc = "audit", !.row = <<>>,
                                !.routeId = RouteIdOf(nextId.route),
                                !.routesProcessed = @ + 1])
                EXCEPT !.routes = Put(routes, RouteIdOf(nextId.route), row),
                       !.next = nextId.route + 1]
        : sampleId \in {ids[tab.g][2]}, row \in {tab.row[1]}})

\* The insert into sample_uploads.
AtAudit(tab, rows, ids) ==
    [Local([tab EXCEPT !.pc = "row", !.r = 1])
       EXCEPT !.uploads =
           Append(uploads, [route_id |-> tab.routeId, uploaded_by |-> tab.user,
                            filename |-> tab.file,
                            row_count |-> Len(GroupOf(rows, ids[tab.g][2]))])]

\* The loop over the rows of the group, at row r.
AtRow(tab, rows, ids) ==
    The({
        IF tab.r > Len(sampleRows)
        THEN Local([tab EXCEPT !.pc = "group", !.g = @ + 1, !.r = 0,
                               !.routeId = None])
        ELSE The({
            [Local([tab EXCEPT !.r = @ + 1, !.errors = acc.errors,
                               !.detectionsAdded = acc.detectionsAdded])
               EXCEPT !.detections = acc.detections]
            : acc \in {ProcessRow([detections |-> detections,
                                   errors |-> tab.errors,
                                   detectionsAdded |-> tab.detectionsAdded],
                                  ids[tab.g][2], tab.routeId, sampleRows[tab.r])}})
        : sampleRows \in {GroupOf(rows, ids[tab.g][2])}})

\* The tables and the tab after the next stretch of the call.
StepOutcome(tab) ==
    The({
        IF tab.pc = "group" THEN AtGroup(tab, rows, ids)
        ELSE IF tab.pc = "insert" THEN AtInsert(tab, ids)
        ELSE IF tab.pc = "audit" THEN AtAudit(tab, rows, ids)
        ELSE AtRow(tab, rows, ids)
        : rows \in {RowsOfFile[FileNamed(tab.file)]},
          ids \in {GroupsOfFile[FileNamed(tab.file)]}})

\* The tabs whose call is under way.
Running == {b \in Browsers : browsers[b].pc \notin {"idle", "done"}}

\* The user of tab b selects a file and presses Upload.
BeginUpload(b, file, userId) ==
    /\ b \notin Running
    /\ browsers' =
          IF NoRows(RowsOfFile[file])
          THEN [browsers EXCEPT
                  ![b] = Finished([IdleTab EXCEPT !.file = file.name],
                                  FALSE, "No valid data found in CSV", 0, 0,
                                  <<<<"CSV file is empty or invalid">>>>)]
          ELSE [c \in Browsers |->
                  IF c = b
                  THEN [IdleTab EXCEPT !.pc = "group", !.file = file.name,
                                       !.user = userId, !.g = 1,
                                       !.peers = Running]
                  ELSE IF c \in Running
                  THEN [browsers[c] EXCEPT !.peers = @ \cup {b}]
                  ELSE browsers[c]]
    /\ last' = [NoRequest EXCEPT !.op = "upload.begin", !.target = file.name]
    /\ UNCHANGED <<now, ticks, users, sessions, routes, detections, uploads,
                   gpsPoints, loginAttempts, pendingLogin, nextId, purged,
                   attemptLog, passLog, uploadLog, collect, client>>

\* The call of tab b runs on to its next await, or to its end.
UploadStep(b) ==
    /\ b \in Running
    /\ \E out \in {StepOutcome(browsers[b])} :
          /\ out.next <= MaxNewRoutes + 1
          /\ browsers' = [browsers EXCEPT ![b] = out.tab]
          /\ routes' = out.routes
          /\ detections' = out.detections
          /\ uploads' = out.uploads
          /\ nextId' = [nextId EXCEPT !.route = out.next]
    /\ last' = [NoRequest EXCEPT !.op = "upload.step", !.target = browsers[b].file]
    /\ UNCHANGED <<now, ticks, users, sessions, gpsPoints, loginAttempts,
                   pendingLogin, purged, attemptLog, passLog, uploadLog,
                   collect, client>>

\* The page of tab b is closed or reloaded while its call is under way: the
\* call's counters and errors are lost, what it wrote stays.
CloseTab(b) ==
    /\ b \in Running
    /\ browsers' = [browsers EXCEPT ![b] = IdleTab]
    /\ last' = [NoRequest EXCEPT !.op = "upload.close", !.target = browsers[b].file]
    /\ UNCHANGED <<now, ticks, users, sessions, routes, detections, uploads,
                   gpsPoints, loginAttempts, pendingLogin, nextId, purged,
                   attemptLog, passLog, uploadLog, collect, client>>

-----------------------------------------------------------------------------
(* SpecTabs: two tabs uploading at the same time.                          *)

NextTabs ==
    \/ \E b \in Browsers, file \in Files : BeginUpload(b, file, "sampler-id")
    \/ \E b \in Browsers : UploadStep(b)
    \/ \E b \in Browsers : CloseTab(b)

SpecTabs == Init /\ [][NextTabs]_vars

\* Both tabs have uploaded the file, and their calls overlapped.
BothUploaded(name) ==
    \A b \in Browsers :
        /\ browsers[b].pc = "done"
        /\ browsers[b].file = name
        /\ browsers[b].peers # {}

\* C19 (as claimed): two tabs upload at the same time a file of the sample
\* 25_01, of which no route exists.  When both calls have ended, exactly
\* one route of 25_01 exists, neither call has recorded an error for the
\* sample, and each has upserted the file's detection against that route.
C19_ConcurrentUploadsShareRoute ==
    BothUploaded("documented.csv") =>
        /\ Cardinality(RoutesOf(routes, "25_01")) = 1
        /\ \A b \in Browsers :
              /\ browsers[b].result[1].errors = <<>>
              /\ browsers[b].result[1].detectionsAdded = 1
        /\ \A r \in RoutesOf(routes, "25_01") :
              detections = {[route_id |-> r,
                             pathogen_species_id |-> "Puccinia striiformis",
                             read_count |-> 3146]}

-----------------------------------------------------------------------------
(* Claims about the failures of an upload, under SpecIngest.               *)

\* The sample ids of the data rows of each file with a data row, in the
\* order of their first lines.
SampleIdsIn ==
    [name \in {f.name : f \in Files}
                 \ {"header-only.csv", "short.csv", "empty.csv"} |->
        CASE name \in {"blank-separated.csv"} -> <<"25_02">>
          [] name \in {"invalid-first.csv"} -> <<"25_03", "25_01">>
          [] name \in {"invalid-last.csv"} -> <<"25_01", "25_03">>
          [] name \in {"two-samples.csv", "no-points-two-samples.csv"}
                -> <<"25_01", "25_02">>
          [] name \in {"empty-fields.csv"} -> <<"25_01", "">>
          [] OTHER -> <<"25_01">>]

\* The group of a sample was processed by the last upload: it ended with an
\* error of that sample, or with the sample's audit row.
GroupProcessed(sampleId) ==
    \/ \E i \in 1..Len(LastUpload.result.errors) :
          LastUpload.result.errors[i][1] = sampleId
    \/ \E i \in 1..Len(uploads) :
          /\ uploads[i].filename = LastUpload.file
          /\ uploads[i].route_id \in RoutesOf(routes, sampleId)

\* C21 (as claimed): an upload of a file with at least one data row is never
\* aborted as a whole: whatever fails in a group or a row, the call ends
\* with the summary of the loop ('Processed ...'), and every group of the
\* file has been processed.
C21_FailuresNeverAbort ==
    (uploadLog # <<>> /\ last.op = "upload" /\ DataRows[LastUpload.file] > 0) =>
        /\ LastUpload.result.message = "Processed samples"
        /\ \A i \in 1..Len(SampleIdsIn[LastUpload.file]) :
              GroupProcessed(SampleIdsIn[LastUpload.file][i])

\* C22: an upload of a file without a parseable row (empty, header only, or
\* with no line as long as the header) ends at once with success = false,
\* routesProcessed = 0, detectionsAdded = 0 and exactly one error string,
\* and leaves the routes, the detections, the audit rows and the route ids
\* as they were.
C22_NoRowsShortCircuits ==
    [][(last'.op = "upload" /\ DataRows[last'.target] = 0) =>
          /\ uploadLog'[Len(uploadLog')].result
                = [success |-> FALSE, message |-> "No valid data found in CSV",
                   routesProcessed |-> 0, detectionsAdded |-> 0,
                   errors |-> <<<<"CSV file is empty or invalid">>>>]
          /\ UNCHANGED <<routes, detections, uploads, nextId>>]_vars

\* Each kind of file without rows has been uploaded to a store with a route.
C22_Witness ==
    /\ Len(uploadLog) = 2
    /\ last.op = "upload"
    /\ {uploadLog[1].file, uploadLog[2].file} \subseteq
          {"empty.csv", "header-only.csv", "short.csv"}
    /\ uploadLog[1].file # uploadLog[2].file
    /\ ~uploadLog[2].result.success
    /\ Len(uploadLog[2].result.errors) = 1
    /\ DOMAIN routes # {}
    /\ uploadLog[2].before[1] = routes

\* C23 (as claimed): the row of sample 25_02 in two-samples.csv has the
\* read count 0 for a known species: the upload stores it as the detection
\* of that route and species with read_count = 0, counts it in
\* detectionsAdded (2 for the file's two rows) and records no error for it.
C23_ZeroReadCountStored ==
    Uploaded("two-samples.csv") =>
        /\ Cardinality(DetectionsOf("25_02", "Puccinia triticina")) = 1
        /\ \A d \in DetectionsOf("25_02", "Puccinia triticina") : d.read_count = 0
        /\ LastUpload.result.detectionsAdded = 2
        /\ \A i \in 1..Len(LastUpload.result.errors) :
              LastUpload.result.errors[i][1] # "25_02"

-----------------------------------------------------------------------------
(* SpecUsers: an administrator creates users and changes their e-mail      *)
(* addresses, written in upper and lower case.                             *)

NextUsers ==
    \/ /\ FewAttempts("10.0.0.1")
       /\ Login("10.0.0.1", "admin@spore.local", "admin123")
    \/ LoginIssue
    \/ \E tok \in TokenInputs,
          email \in {"New@Test.com", "new@test.com", "Viewer@Test.com"},
          role \in {"viewer", "sampler"} :
            UsersPOST(tok, email, "new123", "New User", role)
    \/ \E tok \in TokenInputs, id \in {"viewer-id", "sampler-id", UserIdOf(1)},
          email \in {"New@Test.com", "Admin@Spore.Local", "viewer@test.com",
                     "Other@Test.com"} :
            UsersPATCH(tok, id, <<email>>, <<>>, <<>>)

SpecUsers == Init /\ [][NextUsers]_vars

\* The e-mail addresses of the requests and the rows, with their lower-case
\* spelling.
LowerCased ==
    [e \in {"New@Test.com", "new@test.com", "Viewer@Test.com", "viewer@test.com",
            "Admin@Spore.Local", "admin@spore.local", "sampler@test.com",
            "Other@Test.com", "other@test.com"} |->
        CASE e = "New@Test.com" -> "new@test.com"
          [] e = "Viewer@Test.com" -> "viewer@test.com"
          [] e = "Admin@Spore.Local" -> "admin@spore.local"
          [] e = "Other@Test.com" -> "other@test.com"
          [] OTHER -> e]

\* No two rows of a users table have e-mail addresses equal ignoring case.
NoTwoUsersShareEmail(usrs) ==
    \A u, v \in DOMAIN usrs :
        LowerCased[usrs[u].email] = LowerCased[usrs[v].email] => u = v

\* C25: after every request to the users API no two users have e-mail
\* addresses that are equal ignoring case, and a create by an administrator
\* with an address that, in lower case, belongs to a user is answered 409
\* and leaves the users table as it was.
C25_EmailsUniqueIgnoringCase ==
    [][/\ NoTwoUsersShareEmail(users')
       /\ (/\ last'.op = "users.POST"
           /\ last'.authed
           /\ \E u \in DOMAIN users : LowerCased[users[u].email] = LowerCased[last'.email])
          => (last'.status = 409 /\ users' = users)]_vars

\* An administrator's create with the address of a user in other case was
\* refused, after the address of another user had been changed.
C25_Witness ==
    /\ last.op = "users.POST"
    /\ last.email = "Viewer@Test.com"
    /\ last.status = 409
    /\ \E u \in DOMAIN users : users[u].email = "other@test.com"
    /\ \E u \in DOMAIN users : users[u].email = "viewer@test.com"

-----------------------------------------------------------------------------
(* Claims about what requireAuth leaves behind, under Spec.                *)

\* C26: a requireAuth call never changes the users table, and changes the
\* sessions table only when it answers 'Session expired': then it deletes
\* the session of the presented token, whose expires_at is not later than
\* the time of the call, and no other session.  With every other answer
\* (no token, unknown token, inactive or missing user, Forbidden, success)
\* both tables are as they were.
C26_RequireAuthFrame ==
    [][last'.op = "requireAuth" =>
          /\ users' = users
          /\ IF last'.body = "Session expired"
             THEN /\ last'.token \in DOMAIN sessions
                  /\ sessions[last'.token].expires_at <= now
                  /\ sessions' = Remove(sessions, last'.token)
             ELSE sessions' = sessions]_vars

\* An expired session was deleted by the call while a session that is still
\* valid stayed.
C26_Witness ==
    /\ last.op = "requireAuth"
    /\ last.body = "Session expired"
    /\ [token |-> last.token, by |-> "expired"] \in purged
    /\ \E tok \in DOMAIN sessions : sessions[tok].expires_at > now

-----------------------------------------------------------------------------
(* The Collect tab: the field-collection component of the sampler's        *)
(* browser.  Positions are known by their time and their source.           *)

\* The SavedSession the auto-save effect writes; writtenIn is history: the
\* status of the component at the time of the write.
SessionOf(c) ==
    [sampleId |-> c.sampleId, status |-> c.status,
     startPosition |-> c.startPosition, currentPosition |-> c.currentPosition,
     trackingPoints |-> c.trackingPoints,
     startLocationName |-> c.startLocationName,
     endLocationName |-> c.endLocationName, writtenIn |-> c.status]

\* The auto-save effect: it runs after every change of the state it depends
\* on and saves at once while the status is 'recording'.
AutoSave(c) ==
    IF c.status = "recording" THEN [c EXCEPT !.saved = <<SessionOf(c)>>] ELSE c

\* The callback of watchPosition for a position taken at time t: the
\* current position, a tracking point when the last one is more than 30
\* seconds old, and with it a session written with status 'recording'.
TRACK_EVERY_MS == 30000

WatchPosition(c, t) ==
    LET gpsPos == [timestamp |-> t, source |-> "gps"]
        prev == c.trackingPoints
        newPoints == Append(prev, gpsPos)
    IN  IF prev = <<>> \/ t - prev[Len(prev)].timestamp > TRACK_EVERY_MS
        THEN [c EXCEPT
                !.currentPosition = <<gpsPos>>,
                !.trackingPoints = newPoints,
                !.saved = <<[sampleId |-> c.sampleId, status |-> "recording",
                             startPosition |-> c.startPosition,
                             currentPosition |-> <<gpsPos>>,
                             trackingPoints |-> newPoints,
                             startLocationName |-> None,
                             endLocationName |-> None,
                             writtenIn |-> c.status]>>]
        ELSE [c EXCEPT !.currentPosition = <<gpsPos>>]

\* The state after handleEndSample's request was answered ok: the entry of
\* local storage removed, the form reset.
AfterSaved(c) ==
    [c EXCEPT !.saved = <<>>, !.sampleId = "", !.startLocationName = "",
              !.endLocationName = "", !.startPosition = <<>>,
              !.currentPosition = <<>>, !.trackingPoints = <<>>,
              !.status = "idle"]

\* The catch block of handleEndSample.
AfterSaveFailedAsSaved(c, message) == AfterSaved(c)

AfterSaveFailed(c, message) ==
    [c EXCEPT !.error = message, !.status = "recording"]

\* What the steps of the component leave of the other variables.
CollectFrame ==
    UNCHANGED <<now, ticks, users, sessions, routes, detections, uploads,
                gpsPoints, loginAttempts, pendingLogin, nextId, purged,
                attemptLog, passLog, uploadLog, browsers, client>>

Did(op, body) == [NoRequest EXCEPT !.op = op, !.body = body]

\* The user types into the fields of the form.
SetSampleId(id) ==
    /\ collect.status = "idle"
    /\ collect' = AutoSave([collect EXCEPT !.sampleId = id])
    /\ last' = Did("collect.input", "sampleId")
    /\ CollectFrame

SetStartLocationName(name) ==
    /\ collect.status = "idle"
    /\ collect' = AutoSave([collect EXCEPT !.startLocationName = name])
    /\ last' = Did("collect.input", "startLocationName")
    /\ CollectFrame

SetEndLocationName(name) ==
    /\ collect.status = "recording"
    /\ collect' = AutoSave([collect EXCEPT !.endLocationName = name])
    /\ last' = Did("collect.input", "endLocationName")
    /\ CollectFrame

\* 'Use manual entry'.
SetUseManualEntry ==
    /\ collect.status \in {"idle", "recording"}
    /\ ~collect.useManualEntry
    /\ collect' = AutoSave([collect EXCEPT !.useManualEntry = TRUE])
    /\ last' = Did("collect.input", "useManualEntry")
    /\ CollectFrame

\* The GPS tracking effect: while the status is 'recording' or 'idle' and
\* manual entry is off, the watch reports a position.
GpsFix ==
    /\ collect.status \in {"recording", "idle"}
    /\ ~collect.useManualEntry
    /\ collect' = AutoSave(WatchPosition(collect, now))
    /\ last' = Did("collect.gps", None)
    /\ CollectFrame

\* handleManualPosition(lat, lng, isStart)
HandleManualPosition(isStart) ==
    /\ collect.status \in {"idle", "recording"}
    /\ collect.useManualEntry
    /\ collect' =
          AutoSave(IF isStart
                   THEN [collect EXCEPT
                           !.startPosition = <<[timestamp |-> now, source |-> "manual"]>>,
                           !.trackingPoints = <<[timestamp |-> now, source |-> "manual"]>>]
                   ELSE [collect EXCEPT
                           !.currentPosition = <<[timestamp |-> now, source |-> "manual"]>>])
    /\ last' = Did("collect.manual", None)
    /\ CollectFrame

\* handleStartSample(); gps is the outcome of getCurrentPosition.
HandleStartSample(gps) ==
    /\ collect.status = "idle"
    /\ collect' =
          AutoSave(
            IF Trim(collect.sampleId) = ""
            THEN [collect EXCEPT !.error = "Please enter a sample ID"]
            ELSE IF Trim(collect.startLocationName) = ""
            THEN [collect EXCEPT !.error = "Please enter a start location name"]
            ELSE IF \E r \in DOMAIN routes :
                       routes[r].sample_id = Trim(collect.sampleId)
            THEN [collect EXCEPT !.error = "This sample ID already exists. Please use a different ID."]
            ELSE IF ~collect.useManualEntry
            THEN IF gps = "fix"
                 THEN [collect EXCEPT
                         !.startPosition = <<[timestamp |-> now, source |-> "gps"]>>,
                         !.currentPosition = <<[timestamp |-> now, source |-> "gps"]>>,
                         !.trackingPoints = <<[timestamp |-> now, source |-> "gps"]>>,
                         !.status = "recording", !.error = ""]
                 ELSE [collect EXCEPT !.useManualEntry = TRUE,
                                      !.status = "recording"]
            ELSE [collect EXCEPT !.status = "recording", !.error = ""])
    /\ last' = Did("collect.start", None)
    /\ CollectFrame

\* handleEndSample() up to its fetch: the status becomes 'saving' and the
\* request is on its way.
HandleEndSample ==
    /\ collect.status = "recording"
    /\ IF collect.startPosition = <<>> \/ collect.currentPosition = <<>>
       THEN /\ collect' = AutoSave([collect EXCEPT
                                      !.error = "Missing start or end position"])
            /\ last' = Did("collect.end", "refused")
       ELSE IF Trim(collect.endLocationName) = ""
       THEN /\ collect' = AutoSave([collect EXCEPT
                                      !.error = "Please enter an end location name"])
            /\ last' = Did("collect.end", "refused")
       ELSE /\ collect' = [collect EXCEPT !.status = "saving"]
            /\ last' = Did("collect.end", "sent")
    /\ CollectFrame

\* POST /api/samples handles the request of handleEndSample.
SaveRequest ==
    /\ collect.status = "saving"
    /\ last.op = "collect.end"
    /\ SamplesPOST(collect.sampleId, "sampler-id", Len(collect.trackingPoints))

\* handleEndSample() after its fetch: the response has arrived, or the
\* request has thrown.
SaveResponse ==
    /\ collect.status = "saving"
    /\ last.op = "samples.POST"
    /\ IF last.status = 200
       THEN /\ collect' = AutoSave(AfterSaved(collect))
            /\ last' = Did("collect.saved", None)
       ELSE /\ collect' = AutoSave(AfterSaveFailed(collect, last.body))
            /\ last' = Did("collect.save-failed", "not ok")
    /\ CollectFrame

SaveThrows ==
    /\ collect.status = "saving"
    /\ last.op = "collect.end"
    /\ collect' = AutoSave(AfterSaveFailed(collect, "Failed to fetch"))
    /\ last' = Did("collect.save-failed", "thrown")
    /\ CollectFrame

\* handleCancel(); confirmed is the user's answer to the confirm dialog.
HandleCancel(confirmed) ==
    /\ collect.status = "recording"
    /\ IF confirmed
       THEN /\ collect' = [collect EXCEPT
                             !.saved = <<>>, !.sampleId = "",
                             !.startPosition = <<>>, !.currentPosition = <<>>,
                             !.trackingPoints = <<>>, !.status = "idle",
                             !.error = ""]
            /\ last' = Did("collect.cancel", "confirmed")
       ELSE /\ collect' = collect
            /\ last' = Did("collect.cancel", "dismissed")
    /\ CollectFrame

\* Whether the mount effect takes a saved session for an active recording.
Recoverable(session) ==
    /\ session.status = "recording"
    /\ Trim(session.sampleId) # ""
    /\ Len(session.trackingPoints) > 0

\* The page is loaded again: the component mounts with what local storage
\* holds, and the recovery effect runs; continue is the user's answer to
\* its confirm dialog.
Mount(continue) ==
    /\ collect.status # "saving"
    /\ IF collect.saved = <<>>
       THEN /\ collect' = Mounted(<<>>)
            /\ last' = Did("collect.mount", "nothing saved")
       ELSE IF ~Recoverable(collect.saved[1])
       THEN /\ collect' = Mounted(<<>>)
            /\ last' = Did("collect.mount", "cleared")
       ELSE IF continue
       THEN /\ collect' =
                 AutoSave([Mounted(collect.saved) EXCEPT
                    !.sampleId = collect.saved[1].sampleId,
                    !.startLocationName =
                        IF collect.saved[1].startLocationName = None THEN ""
                        ELSE collect.saved[1].startLocationName,
                    !.endLocationName =
                        IF collect.saved[1].endLocationName = None THEN ""
                        ELSE collect.saved[1].endLocationName,
                    !.status = "recording",
                    !.startPosition = collect.saved[1].startPosition,
                    !.currentPosition = collect.saved[1].currentPosition,
                    !.trackingPoints = collect.saved[1].trackingPoints,
                    !.sessionRecovered = TRUE,
                    !.offered = collect.saved[1].writtenIn])
            /\ last' = Did("collect.mount", "recovered")
       ELSE /\ collect' = [Mounted(<<>>) EXCEPT
                             !.offered = collect.saved[1].writtenIn]
            /\ last' = Did("collect.mount", "declined")
    /\ CollectFrame

-----------------------------------------------------------------------------
(* SpecCollect: a sampler in the field.                                    *)

NextCollect ==
    \/ SetSampleId("25_01")
    \/ SetStartLocationName("Perth")
    \/ SetEndLocationName("Bindoon")
    \/ SetUseManualEntry
    \/ GpsFix
    \/ \E isStart \in BOOLEAN : HandleManualPosition(isStart)
    \/ \E gps \in {"fix", "error"} : HandleStartSample(gps)
    \/ HandleEndSample
    \/ SaveRequest
    \/ SaveResponse
    \/ SaveThrows
    \/ \E confirmed \in BOOLEAN : HandleCancel(confirmed)
    \/ \E continue \in BOOLEAN : Mount(continue)
    \/ /\ collect.status # "saving"
       /\ Tick(TRACK_EVERY_MS + 1)

SpecCollect == Init /\ [][NextCollect]_vars

\* C27 (as claimed): a session in local storage with status 'recording' was
\* written while the component's status was 'recording', and so was every
\* session the mount effect has offered for recovery.
C27_RecordingSessionsWrittenWhileRecording ==
    /\ (collect.saved # <<>> /\ collect.saved[1].status = "recording")
          => collect.saved[1].writtenIn = "recording"
    /\ collect.offered # None => collect.offered = "recording"

\* The steps after which the component may drop the backup and return to
\* 'idle', as claimed: a save that succeeded, a cancel the user confirmed.
SavedOrCancelled(req) ==
    \/ req.op = "collect.saved"
    \/ req.op = "collect.cancel" /\ req.body = "confirmed"

\* The recovery effect on mount discarded the saved session.
DiscardedOnMount(req) ==
    req.op = "collect.mount" /\ req.body \in {"declined", "cleared"}

BackupRemoved == collect.saved # <<>> /\ collect'.saved = <<>>

ResetToIdle ==
    collect.status \in {"recording", "saving"} /\ collect'.status = "idle"

\* A failed save leaves the recording as it was, with its backup.
FailedSaveKeepsData ==
    last'.op = "collect.save-failed" =>
        /\ collect.status = "saving"
        /\ collect'.status = "recording"
        /\ collect'.sampleId = collect.sampleId
        /\ collect'.startPosition = collect.startPosition
        /\ collect'.currentPosition = collect.currentPosition
        /\ collect'.trackingPoints = collect.trackingPoints
        /\ collect'.saved # <<>>
        /\ collect'.saved[1].trackingPoints = collect.trackingPoints

\* C28 (as claimed): a failed save takes the status from 'saving' back to
\* 'recording' with sampleId, startPosition, currentPosition and
\* trackingPoints unchanged and the backup still in local storage; the backup
\* is removed and the state reset to 'idle' only by a save that succeeded or
\* a cancel the user confirmed.
C28_BackupDroppedOnlyAfterSaveOrCancel ==
    [][/\ FailedSaveKeepsData
       /\ (BackupRemoved \/ ResetToIdle) => SavedOrCancelled(last')]_vars

\* C28 (amended): a failed save takes the status from 'saving' back to
\* 'recording' with sampleId, startPosition, currentPosition and
\* trackingPoints unchanged and the backup still in local storage; the backup
\* is removed and the state reset to 'idle' only by a save that succeeded, a
\* cancel the user confirmed, or a mount whose recovery effect discarded the
\* saved session.
C28_BackupDroppedOnlyAfterSaveCancelOrMount ==
    [][/\ FailedSaveKeepsData
       /\ (BackupRemoved \/ ResetToIdle) =>
             SavedOrCancelled(last') \/ DiscardedOnMount(last')]_vars

\* A save the server refused has returned the component to its recording.
C28_Witness ==
    /\ last.op = "collect.save-failed"
    /\ last.body = "not ok"
    /\ collect.status = "recording"
    /\ Len(collect.trackingPoints) > 1
    /\ collect.saved # <<>>

-----------------------------------------------------------------------------
(* lib/auth: AuthService, the browser's side of login and logout.  The     *)
(* browser keeps the user of the login response under 'spore_session' and   *)
(* the session cookie the response set.                                     *)

SESSION_DURATION == 86400000

\* The address the browser's requests come from.
BrowserIp == "10.0.0.2"

\* AuthService.getCurrentUser() at time t: the stored user, <<>> for null.
GetCurrentUser(c, t) ==
    IF c.session = <<>> THEN <<>>
    ELSE IF t - c.session[1].loginTime > SESSION_DURATION THEN <<>>
    ELSE <<c.session[1].user>>

\* A request that goes out without the session cookie.
CookieOmitted(c) == None

\* The cookie the browser sends along with fetch('/api/logout').
CookieSent(c) == c.cookie

\* No request of AuthService.logout is on its way.
Quiet == client.pc = "idle"

ClientFrame ==
    UNCHANGED <<now, ticks, users, sessions, routes, detections, uploads,
                gpsPoints, loginAttempts, pendingLogin, nextId, purged,
                attemptLog, passLog, uploadLog, browsers, collect>>

\* AuthService.login() after its fetch: the response is ok and carries a
\* user; the browser has taken the cookie and stores the session.
StoreSession ==
    /\ Quiet
    /\ last.op = "login" /\ last.ip = BrowserIp
    /\ last.status = 200 /\ last.user # <<>>
    /\ client.cookie # last.cookie
    /\ client' = [client EXCEPT
                    !.session = <<[user |-> last.user[1], loginTime |-> now]>>,
                    !.cookie = last.cookie]
    /\ last' = Did("AuthService.login", "stored")
    /\ ClientFrame

\* AuthService.logout() up to its fetch: the stored session is removed and
\* the request is on its way.
LogoutBegin ==
    /\ Quiet
    /\ client' = [client EXCEPT !.session = <<>>, !.pc = "logout-sent"]
    /\ last' = Did("AuthService.logout", "sent")
    /\ ClientFrame

\* A call of AuthService.getCurrentUser(): it logs out when the stored
\* session is older than SESSION_DURATION.
GetCurrentUserCall ==
    /\ Quiet
    /\ client.session # <<>>
    /\ IF now - client.session[1].loginTime > SESSION_DURATION
       THEN /\ client' = [client EXCEPT !.session = <<>>, !.pc = "logout-sent"]
            /\ last' = Did("AuthService.logout", "sent")
       ELSE /\ client' = client
            /\ last' = Did("AuthService.getCurrentUser", "user")
    /\ ClientFrame

\* POST /api/logout handles the request of AuthService.logout().
LogoutRequest ==
    /\ client.pc = "logout-sent"
    /\ last.op = "AuthService.logout"
    /\ Logout(CookieSent(client))

\* AuthService.logout() after its fetch: the response has arrived and has
\* cleared the cookie.
LogoutAnswered ==
    /\ client.pc = "logout-sent"
    /\ last.op = "logout"
    /\ client' = [client EXCEPT
                    !.cookie = None, !.pc = "idle",
                    !.loggedOut = @ \cup ({client.cookie} \ {None}),
                    !.answered = @ \cup ({client.cookie} \ {None})]
    /\ last' = Did("AuthService.logout", "answered")
    /\ ClientFrame

\* The fetch of AuthService.logout() throws; the catch block swallows it.
LogoutThrows ==
    /\ client.pc = "logout-sent"
    /\ client' = [client EXCEPT
                    !.pc = "idle",
                    !.loggedOut = @ \cup ({client.cookie} \ {None})]
    /\ last' = Did("AuthService.logout", "thrown")
    /\ ClientFrame

-----------------------------------------------------------------------------
(* SpecClient: one browser logging in and out as the viewer, requests with *)
(* any token, an administrator editing the viewer, and the clock.          *)

NextClient ==
    \/ /\ Quiet
       /\ FewAttempts(BrowserIp)
       /\ Login(BrowserIp, "viewer@test.com", "viewer123")
    \/ /\ Quiet
       /\ FewAttempts("10.0.0.1")
       /\ Login("10.0.0.1", "admin@spore.local", "admin123")
    \/ Quiet /\ LoginIssue
    \/ StoreSession
    \/ LogoutBegin
    \/ GetCurrentUserCall
    \/ LogoutRequest
    \/ LogoutAnswered
    \/ LogoutThrows
    \/ /\ Quiet
       /\ \E tok \in TokenInputs : GuardedRead(tok, "viewer")
    \/ /\ Quiet
       /\ \E tok \in TokenInputs,
             change \in {<<<<"sampler">>, <<>>>>, <<<<>>, <<FALSE>>>>} :
               UsersPATCH(tok, "viewer-id", <<>>, change[1], change[2])
    \/ /\ Quiet
       /\ Tick(SESSION_DURATION + 1)

SpecClient == Init /\ [][NextClient]_vars

\* AuthService.logout() completes with this step.
LogoutCompletes == client.pc = "logout-sent" /\ client'.pc = "idle"

C30_ClientIdentityAgreesWithServer ==
    LET user == GetCurrentUser(client, now) IN
    user # <<>> =>
        /\ RequireAuth(sessions, users, now, client.cookie, user[1].role).status = 200
        /\ users[sessions[client.cookie].user_id].role = user[1].role

====
